---- MODULE Spec2Model ----
(***************************************************************************)
(* Model of the maze game's synchronous command bridge                     *)
(* (public/python-worker.js <-> src/python-repl.ts) and of the command     *)
(* state machine of GridPuzzle3D (src/game.ts, src/parts/map.ts).          *)
(*                                                                         *)
(* A JavaScript string is the sequence of its UTF-16 code units, so a      *)
(* string is modelled as a sequence of integers.  Angles are counted in    *)
(* eighths of a turn (pi/4), so that the half-way frame of a quarter-turn  *)
(* animation can be represented.  Grid cells are pairs <<i, j>>.           *)
(***************************************************************************)
EXTENDS Integers, Sequences, FiniteSets, TLC

(***************************************************************************)
(* Bounds of the model                                                     *)
(***************************************************************************)
\* queued runCode messages plus unread console messages
MaxQueue == 1
\* primitive calls the worker issues in one run, the prelude's included
MaxCalls == 5
\* longest string drawn as a result value when the encoding is checked
MaxLen == 1
\* results published in one run when the encoding is checked
MaxPublishes == 2

(***************************************************************************)
(* Characters and strings                                                  *)
(***************************************************************************)
\* printable ASCII, code units 32..126, in code order (the quotation mark,
\* the backslash and the backtick are listed by name)
AsciiTable ==
  << " ", "!", "QUOTE", "#", "$", "%", "&", "'", "(", ")", "*", "+", ",", "-",
     ".", "/", "0", "1", "2", "3", "4", "5", "6", "7", "8", "9", ":", ";",
     "<", "=", ">", "?", "@", "A", "B", "C", "D", "E", "F", "G", "H", "I",
     "J", "K", "L", "M", "N", "O", "P", "Q", "R", "S", "T", "U", "V", "W",
     "X", "Y", "Z", "[", "BACKSLASH", "]", "^", "_", "BACKTICK", "a", "b", "c", "d", "e",
     "f", "g", "h", "i", "j", "k", "l", "m", "n", "o", "p", "q", "r", "s",
     "t", "u", "v", "w", "x", "y", "z", "{", "|", "}", "~" >>

charCode(c) == 31 + (CHOOSE n \in DOMAIN AsciiTable : AsciiTable[n] = c)

\* the string whose characters are listed in cs
Str(cs) == [n \in 1..Len(cs) |-> charCode(cs[n])]

QUOTE == 34
BACKSLASH == 92

(***************************************************************************)
(* JavaScript values that travel through the bridge                        *)
(***************************************************************************)
Undefined == [t |-> "undefined"]
Null == [t |-> "null"]
JSString(s) == [t |-> "string", s |-> s]
\* the exception JSON.parse raises on malformed text
SyntaxError == [t |-> "SyntaxError"]

\* methodResult ?? null
Coalesce(v) == IF v.t = "undefined" THEN Null ELSE v

NULL_TEXT == Str(<<"n", "u", "l", "l">>)

\* index of the first code unit of s that JSON writes or reads specially
\* (quotation mark, backslash, control character), 0 when there is none
FirstSpecial(s) ==
  LET special(k) == s[k] = QUOTE \/ s[k] = BACKSLASH \/ s[k] < 32
  IN IF \E k \in DOMAIN s : special(k)
     THEN CHOOSE k \in DOMAIN s : special(k) /\ \A m \in 1..(k - 1) : ~special(m)
     ELSE 0

\* variant: nothing is escaped
QuoteCharsPlain(s) == s

\* the contents of a string literal for the string s of printable ASCII
RECURSIVE QuoteChars(_)
QuoteChars(s) ==
  LET p == FirstSpecial(s)
  IN IF p = 0 THEN s
     ELSE SubSeq(s, 1, p - 1) \o <<BACKSLASH, s[p]>>
          \o QuoteChars(SubSeq(s, p + 1, Len(s)))

\* JSON.stringify of null or of a string of printable ASCII
JSONstringify(v) ==
  IF v.t = "string" THEN <<QUOTE>> \o QuoteChars(v.s) \o <<QUOTE>>
  ELSE NULL_TEXT

\* value of a hexadecimal digit, -1 for any other code unit
HexVal(c) ==
  IF c >= 48 /\ c <= 57 THEN c - 48
  ELSE IF c >= 97 /\ c <= 102 THEN c - 87
  ELSE IF c >= 65 /\ c <= 70 THEN c - 55
  ELSE -1

\* the code unit an escape sequence \c stands for, -1 when \c is no escape
EscapeOf(c) ==
  IF c = QUOTE \/ c = BACKSLASH \/ c = 47 THEN c
  ELSE IF c = 98 THEN 8
  ELSE IF c = 102 THEN 12
  ELSE IF c = 110 THEN 10
  ELSE IF c = 114 THEN 13
  ELSE IF c = 116 THEN 9
  ELSE -1

\* the string a literal stands for, given the text after its opening
\* quotation mark; <<-1>> when that text is not the rest of one literal
RECURSIVE UnquoteChars(_)
UnquoteChars(s) ==
  LET p == FirstSpecial(s)
      plain == SubSeq(s, 1, p - 1)
      after(k) == UnquoteChars(SubSeq(s, k, Len(s)))
      join(u, rest) == IF rest = <<-1>> THEN rest ELSE plain \o <<u>> \o rest
  IN IF p = 0 THEN <<-1>>
     ELSE IF s[p] = QUOTE THEN (IF p = Len(s) THEN plain ELSE <<-1>>)
     ELSE IF s[p] < 32 THEN <<-1>>
     ELSE IF Len(s) > p /\ EscapeOf(s[p + 1]) >= 0
          THEN join(EscapeOf(s[p + 1]), after(p + 2))
     ELSE IF Len(s) >= p + 5 /\ s[p + 1] = 117
             /\ \A n \in (p + 2)..(p + 5) : HexVal(s[n]) >= 0
          THEN join(4096 * HexVal(s[p + 2]) + 256 * HexVal(s[p + 3])
                    + 16 * HexVal(s[p + 4]) + HexVal(s[p + 5]),
                    after(p + 6))
     ELSE <<-1>>

\* JSON.parse of a text that is null or a string literal; any other text
\* the bridge can carry is malformed
JSONparse(text) ==
  IF text = NULL_TEXT THEN Null
  ELSE IF text # <<>> /\ Head(text) = QUOTE
       THEN LET body == UnquoteChars(Tail(text))
            IN IF body = <<-1>> THEN SyntaxError ELSE JSString(body)
       ELSE SyntaxError

\* String.fromCharCode: ToUint16 of the cell value
fromCharCode(n) == n % 65536


(***************************************************************************)
(* Level registry (src/Player.ts).  A map is a sequence of rows, a row a   *)
(* sequence of characters; MAP[j][i] of the source is Ch(MAP, i, j).       *)
(***************************************************************************)
MAP_intro ==
  << <<"#", "#", "#", "#", "#", "#", "#", "#", "#", "#">>,
     <<"#", "S", ".", "B", ".", "~", ".", ".", "E", "#">>,
     <<"#", "#", "#", "#", "#", "#", "#", "#", "#", "#">> >>

MAP_speed ==
  << <<"#", "#", "#", "#", "#", "#">>,
     <<"#", "#", "#", "S", "y", "#">>,
     <<"#", "E", "a", ".", ".", "#">>,
     <<"#", "#", "#", "#", "#", "#">> >>

MAP_box ==
  << <<"#", "#", "#", "#", "#", "#", "#", "#", "#", "#">>,
     <<"#", "S", ".", ".", ".", ".", "~", ".", "E", "#">>,
     <<"#", ".", "#", ".", "#", "B", "#", "#", "#", "#">>,
     <<"#", ".", "#", ".", ".", ".", ".", ".", ".", "#">>,
     <<"#", "#", "#", "#", "#", "#", "#", "#", "#", "#">> >>

MAP_keys ==
  << <<"#", "#", "#", "#", "#", "#", "#", "#">>,
     <<"#", "S", ".", ".", "~", ".", "E", "#">>,
     <<"#", ".", "#", "B", "#", "#", "#", "#">>,
     <<"#", ".", "d", ".", "#", "K", ".", "#">>,
     <<"#", ".", "#", "#", "#", "#", ".", "#">>,
     <<"#", ".", ".", ".", ".", ".", ".", "#">>,
     <<"#", "#", "#", "#", "#", "#", "#", "#">> >>

MAP_auto ==
  << <<"#", "#", "#", "#", "#", "#", "#", "#">>,
     <<"#", "S", ".", ".", "~", ".", "E", "#">>,
     <<"#", ".", "#", "B", "#", "#", "#", "#">>,
     <<"#", ".", "d", ".", "#", "K", ".", "#">>,
     <<"#", "y", "#", "#", "#", "#", ".", "#">>,
     <<"#", ".", "a", ".", ".", ".", ".", "#">>,
     <<"#", "#", "#", "#", "#", "#", "#", "#">> >>

MAP_lava ==
  << <<"#", "#", "#", "#", "#", "#", "#", "#", "#", "#", "#", "#", "#", "#", "#">>,
     <<"#", "S", "t", "1", "2", "3", "4", "5", "6", "7", "8", "9", ".", "E", "#">>,
     <<"#", "#", "#", "#", "#", "#", "#", "#", "#", "#", "#", "#", "#", "#", "#">> >>

\* the levels with a fixed grid; "random" and "integration" draw their grid
\* with Math.random and are left out
levels ==
  [intro |-> MAP_intro, speed |-> MAP_speed, box |-> MAP_box,
   keys |-> MAP_keys, auto |-> MAP_auto, lava |-> MAP_lava]

Ch(MAP, i, j) == MAP[j + 1][i + 1]

CellsOf(MAP) == (0..(Len(MAP[1]) - 1)) \X (0..(Len(MAP) - 1))

CellsWith(MAP, chars) == {c \in CellsOf(MAP) : Ch(MAP, c[1], c[2]) \in chars}

\* the last cell in scan order (rows outermost) of a non-empty set of cells
LastCell(cells) ==
  CHOOSE c \in cells :
    \A d \in cells : d[2] < c[2] \/ (d[2] = c[2] /\ d[1] <= c[1])

\* variant: the directions of 'Y' and 'y' are exchanged
ButtonDirectionSwapped(ch) ==
  IF ch = "T" THEN 0 ELSE IF ch = "t" THEN 4 ELSE IF ch = "Y" THEN 6 ELSE 2

\* direction of a button of the given type, in eighths of a turn
ButtonDirection(ch) ==
  IF ch = "T" THEN 0 ELSE IF ch = "t" THEN 4 ELSE IF ch = "Y" THEN 2 ELSE 6

\* variant: only the spawn cell is required
initMapSpawnOnly(MAP) ==
  LET S == CellsWith(MAP, {"S"})
      E == CellsWith(MAP, {"E"})
  IN [ok |-> S # {},
      blocked |-> CellsWith(MAP, {"#", "B", "D", "d", "A", "a"}),
      boxes |-> CellsWith(MAP, {"B"}),
      doors |-> CellsWith(MAP, {"D", "d"}),
      autoDoors |-> CellsWith(MAP, {"A", "a"}),
      keys |-> CellsWith(MAP, {"K"}),
      lava |-> CellsWith(MAP, {"~"}),
      buttons |-> [c \in CellsWith(MAP, {"T", "t", "Y", "y"}) |->
                     [direction |-> ButtonDirection(Ch(MAP, c[1], c[2])),
                      toggled |-> FALSE]],
      spawnCell |-> IF S = {} THEN <<-1, -1>> ELSE LastCell(S),
      exitCell |-> IF E = {} THEN <<-1, -1>> ELSE LastCell(E)]

\* initMap: the collections filled from the grid, and the spawn and exit
\* cells; ok is FALSE when the function throws
initMap(MAP) ==
  LET S == CellsWith(MAP, {"S"})
      E == CellsWith(MAP, {"E"})
  IN [ok |-> S # {} /\ E # {},
      blocked |-> CellsWith(MAP, {"#", "B", "D", "d", "A", "a"}),
      boxes |-> CellsWith(MAP, {"B"}),
      doors |-> CellsWith(MAP, {"D", "d"}),
      autoDoors |-> CellsWith(MAP, {"A", "a"}),
      keys |-> CellsWith(MAP, {"K"}),
      lava |-> CellsWith(MAP, {"~"}),
      buttons |-> [c \in CellsWith(MAP, {"T", "t", "Y", "y"}) |->
                     [direction |-> ButtonDirection(Ch(MAP, c[1], c[2])),
                      toggled |-> FALSE]],
      spawnCell |-> IF S = {} THEN <<-1, -1>> ELSE LastCell(S),
      exitCell |-> IF E = {} THEN <<-1, -1>> ELSE LastCell(E)]


(***************************************************************************)
(* Result strings                                                          *)
(***************************************************************************)
\* You can't go there
MSG_CANT_GO ==
  Str(<<"Y", "o", "u", " ", "c", "a", "n", "'", "t", " ", "g", "o", " ",
        "t", "h", "e", "r", "e">>)

\* Press T to open the door!
MSG_PRESS_T ==
  Str(<<"P", "r", "e", "s", "s", " ", "T", " ", "t", "o", " ", "o", "p",
        "e", "n", " ", "t", "h", "e", " ", "d", "o", "o", "r", "!">>)

\* Can't push box
MSG_CANT_PUSH ==
  Str(<<"C", "a", "n", "'", "t", " ", "p", "u", "s", "h", " ", "b", "o",
        "x">>)

\* Button activated!
MSG_BUTTON_ACTIVATED ==
  Str(<<"B", "u", "t", "t", "o", "n", " ", "a", "c", "t", "i", "v", "a",
        "t", "e", "d", "!">>)

\* Button already activated.
MSG_BUTTON_ALREADY ==
  Str(<<"B", "u", "t", "t", "o", "n", " ", "a", "l", "r", "e", "a", "d",
        "y", " ", "a", "c", "t", "i", "v", "a", "t", "e", "d", ".">>)

\* You need to face the button to activate it.
MSG_FACE_BUTTON ==
  Str(<<"Y", "o", "u", " ", "n", "e", "e", "d", " ", "t", "o", " ", "f",
        "a", "c", "e", " ", "t", "h", "e", " ", "b", "u", "t", "t", "o",
        "n", " ", "t", "o", " ", "a", "c", "t", "i", "v", "a", "t", "e",
        " ", "i", "t", ".">>)

\* Door opened!
MSG_DOOR_OPENED ==
  Str(<<"D", "o", "o", "r", " ", "o", "p", "e", "n", "e", "d", "!">>)

\* You need a key to open this door!
MSG_NEED_KEY ==
  Str(<<"Y", "o", "u", " ", "n", "e", "e", "d", " ", "a", " ", "k", "e",
        "y", " ", "t", "o", " ", "o", "p", "e", "n", " ", "t", "h", "i",
        "s", " ", "d", "o", "o", "r", "!">>)

\* There's nothing to use here.
MSG_NOTHING ==
  Str(<<"T", "h", "e", "r", "e", "'", "s", " ", "n", "o", "t", "h", "i",
        "n", "g", " ", "t", "o", " ", "u", "s", "e", " ", "h", "e", "r",
        "e", ".">>)

\* You fell in lava.
MSG_LAVA ==
  Str(<<"Y", "o", "u", " ", "f", "e", "l", "l", " ", "i", "n", " ", "l",
        "a", "v", "a", ".">>)

\* Please select a level first
MSG_SELECT_FIRST ==
  Str(<<"P", "l", "e", "a", "s", "e", " ", "s", "e", "l", "e", "c", "t",
        " ", "a", " ", "l", "e", "v", "e", "l", " ", "f", "i", "r", "s",
        "t">>)

\* Unknown Level
MSG_UNKNOWN_LEVEL ==
  Str(<<"U", "n", "k", "n", "o", "w", "n", " ", "L", "e", "v", "e", "l">>)

\* Please select a level, ex basic
MSG_SELECT_LEVEL ==
  Str(<<"P", "l", "e", "a", "s", "e", " ", "s", "e", "l", "e", "c", "t",
        " ", "a", " ", "l", "e", "v", "e", "l", ",", " ", "e", "x", " ",
        "b", "a", "s", "i", "c">>)

\* $$
SENTINEL ==
  Str(<<"$", "$">>)

\* Level loaded
MSG_LEVEL_LOADED ==
  Str(<<"L", "e", "v", "e", "l", " ", "l", "o", "a", "d", "e", "d">>)

\* the party-popper emoji, a surrogate pair
PARTY == <<55356, 57225>>

\* the win message: the emoji, " You win! Good job. ", the emoji
MSG_WIN ==
  PARTY \o
  Str(<<" ", "Y", "o", "u", " ", "w", "i", "n", "!", " ", "G", "o", "o", "d",
        " ", "j", "o", "b", ".", " ">>)
  \o PARTY


(***************************************************************************)
(* GridPuzzle3D: the game-state controller (src/game.ts)                   *)
(***************************************************************************)
\* Math.round(Math.cos(rotation)) for a rotation in eighths of a turn
RoundCos(r) == <<1, 1, 0, -1, -1, -1, 0, 1>>[(r % 8) + 1]

\* Math.round(Math.sin(rotation)); Math.round(-0.707) is -1
RoundSin(r) == <<0, 1, 1, 1, 0, -1, -1, -1>>[(r % 8) + 1]

\* a quarter turn: Math.PI / 2
QUARTER == 2

\* new GridPuzzle3D(MAP): nothing of the level is built before
\* initializeGameAsync has run, and the player does not exist yet
NewGridPuzzle3D(MAP) ==
  [t |-> "GridPuzzle3D", MAP |-> MAP,
   W |-> Len(MAP[1]), H |-> Len(MAP),
   loaded |-> FALSE, disposed |-> FALSE,
   player |-> Undefined,
   spawnCell |-> <<-1, -1>>, exitCell |-> <<-1, -1>>,
   blocked |-> {}, doors |-> {}, autoDoors |-> {}, boxes |-> {},
   keys |-> {}, lava |-> {}, buttons |-> <<>>]

\* loadPlayer: the player starts on the spawn cell, facing right, no keys
loadPlayer(spawnCell) ==
  [x |-> spawnCell[1], y |-> spawnCell[2], keys |-> 0, moving |-> FALSE,
   rotation |-> 0, meshDisposed |-> FALSE]

\* initializeGameAsync once initMap and loadPlayer have succeeded
initializeGameAsync(g) ==
  LET cells == initMap(g.MAP)
  IN [g EXCEPT !.loaded = TRUE,
               !.blocked = cells.blocked, !.doors = cells.doors,
               !.autoDoors = cells.autoDoors, !.boxes = cells.boxes,
               !.keys = cells.keys, !.lava = cells.lava,
               !.buttons = cells.buttons,
               !.spawnCell = cells.spawnCell, !.exitCell = cells.exitCell,
               !.player = loadPlayer(cells.spawnCell)]

\* dispose(): the session's render loop stops and its resources are released
dispose(g) == [g EXCEPT !.disposed = TRUE]

inBounds(g, i, j) == i >= 0 /\ j >= 0 /\ i < g.W /\ j < g.H

\* variant: only boxes are looked up
isBlockedByBox(g, i, j) == <<i, j>> \in g.boxes

isBlocked(g, i, j) == <<i, j>> \in g.blocked

\* outcome of the synchronous part of a command: it either returns a result
\* (kind "return") or suspends on an animation (any other kind)
Return(g, result) ==
  [kind |-> "return", g |-> g, result |-> result, to |-> <<0, 0>>]

Await(kind, g, to) ==
  [kind |-> kind, g |-> g, result |-> Undefined, to |-> to]

\* variant: the door check is missing
doorAheadNever(g, target) == FALSE

\* attemptMoveAsync, door check: a closed door in the target cell
doorAhead(g, target) == target \in g.doors

\* variant: a box is pushed wherever it is pushed to
cannotPushNever(g, bx, by) == FALSE

\* attemptMoveAsync, box check: the box cannot go to (bx, by)
cannotPush(g, bx, by) == ~inBounds(g, bx, by) \/ isBlocked(g, bx, by)

\* variant: a box pushed into lava is consumed and the lava stays
pushBoxKeepLava(g, targetKey, boxTargetKey) ==
  LET g1 == [g EXCEPT !.boxes = @ \ {targetKey},
                      !.blocked = @ \ {targetKey}]
  IN IF boxTargetKey \in g1.lava THEN g1
     ELSE [g1 EXCEPT !.boxes = @ \cup {boxTargetKey},
                     !.blocked = @ \cup {boxTargetKey}]

\* variant: the lava is consumed and the box stays on its cell
pushBoxFloats(g, targetKey, boxTargetKey) ==
  LET g1 == [g EXCEPT !.boxes = (@ \ {targetKey}) \cup {boxTargetKey},
                      !.blocked = (@ \ {targetKey}) \cup {boxTargetKey}]
  IN IF boxTargetKey \in g1.lava
     THEN [g1 EXCEPT !.lava = @ \ {boxTargetKey}]
     ELSE g1

\* variant: the cell the box leaves stays blocked
pushBoxLeaveBlocked(g, targetKey, boxTargetKey) ==
  LET g1 == [g EXCEPT !.boxes = @ \ {targetKey}]
  IN IF boxTargetKey \in g1.lava
     THEN [g1 EXCEPT !.lava = @ \ {boxTargetKey}]
     ELSE [g1 EXCEPT !.boxes = @ \cup {boxTargetKey},
                     !.blocked = @ \cup {boxTargetKey}]

\* attemptMoveAsync, box pushing: the box leaves targetKey; pushed into lava
\* it is consumed together with the lava entry, otherwise it occupies
\* boxTargetKey
pushBox(g, targetKey, boxTargetKey) ==
  LET g1 == [g EXCEPT !.boxes = @ \ {targetKey},
                      !.blocked = @ \ {targetKey}]
  IN IF boxTargetKey \in g1.lava
     THEN [g1 EXCEPT !.lava = @ \ {boxTargetKey}]
     ELSE [g1 EXCEPT !.boxes = @ \cup {boxTargetKey},
                     !.blocked = @ \cup {boxTargetKey}]

\* variant: the box is moved before it is known whether it can be pushed
attemptMoveAsyncPushFirst(g, dx, dy) ==
  LET nx == g.player.x + dx
      ny == g.player.y + dy
      bx == nx + dx
      by == ny + dy
  IN IF ~inBounds(g, nx, ny) THEN Return(g, JSString(MSG_CANT_GO))
     ELSE IF doorAhead(g, <<nx, ny>>) THEN Return(g, JSString(MSG_PRESS_T))
     ELSE LET g1 == IF <<nx, ny>> \in g.boxes
                    THEN pushBox(g, <<nx, ny>>, <<bx, by>>)
                    ELSE g
          IN IF <<nx, ny>> \in g.boxes /\ cannotPush(g, bx, by)
             THEN Return(g1, JSString(MSG_CANT_PUSH))
             ELSE IF isBlocked(g1, nx, ny)
             THEN Return(g1, JSString(MSG_CANT_GO))
             ELSE Await("move", [g1 EXCEPT !.player.moving = TRUE],
                        <<nx, ny>>)

\* attemptMoveAsync up to the await of movePlayerAsync, whose first statement
\* sets player.moving
attemptMoveAsync(g, dx, dy) ==
  LET nx == g.player.x + dx
      ny == g.player.y + dy
      bx == nx + dx
      by == ny + dy
  IN IF ~inBounds(g, nx, ny) THEN Return(g, JSString(MSG_CANT_GO))
     ELSE IF doorAhead(g, <<nx, ny>>) THEN Return(g, JSString(MSG_PRESS_T))
     ELSE IF <<nx, ny>> \in g.boxes /\ cannotPush(g, bx, by)
          THEN Return(g, JSString(MSG_CANT_PUSH))
     ELSE LET g1 == IF <<nx, ny>> \in g.boxes
                    THEN pushBox(g, <<nx, ny>>, <<bx, by>>)
                    ELSE g
          IN IF isBlocked(g1, nx, ny)
             THEN Return(g1, JSString(MSG_CANT_GO))
             ELSE Await("move", [g1 EXCEPT !.player.moving = TRUE],
                        <<nx, ny>>)

movePlayerForwardAsync(g) ==
  attemptMoveAsync(g, RoundCos(g.player.rotation), RoundSin(g.player.rotation))

moveForward(g) ==
  IF g.player.moving THEN Return(g, Undefined)
  ELSE movePlayerForwardAsync(g)

\* rotatePlayerAsync up to the first frame: the player is marked moving
\* variant: the rotation does not mark the player as moving
turnNotMoving(g, deltaRotation) ==
  IF g.player.moving THEN Return(g, Undefined)
  ELSE Await("rotate", g, <<g.player.rotation, deltaRotation>>)

turn(g, deltaRotation) ==
  IF g.player.moving THEN Return(g, Undefined)
  ELSE Await("rotate", [g EXCEPT !.player.moving = TRUE],
             <<g.player.rotation, deltaRotation>>)

turnLeft(g) == turn(g, QUARTER)

\* variant: the right turn has the sign of the left turn
turnRightAsLeft(g) == turn(g, QUARTER)

turnRight(g) == turn(g, -QUARTER)

\* rotatePlayerAsync, a frame at half progress (eased progress 0.5)
rotateFrameHalf(g, startRotation, deltaRotation) ==
  [g EXCEPT !.player.rotation = startRotation + deltaRotation \div 2]

\* rotatePlayerAsync, the frame with progress >= 1
rotateFrameLast(g, startRotation, deltaRotation) ==
  [g EXCEPT !.player.rotation = (startRotation + deltaRotation) % 8,
            !.player.moving = FALSE]

\* 0.1 rad in thousandths of an eighth of a turn
directionThreshold == 127

Abs(n) == IF n < 0 THEN -n ELSE n

\* useAction, direction check of the button branch
directionMatchAlways(rotation, direction) == TRUE

directionMatch(rotation, direction) ==
  LET playerDirection == (-rotation + 8) % 8
      buttonDirection == (direction + 10) % 8
      diff == 1000 * Abs(playerDirection - buttonDirection)
  IN diff < directionThreshold \/ diff > 8000 - directionThreshold

\* useAction up to its first await
\* variant: the door ahead is served before the button under the player
useActionDoorFirst(g) ==
  LET currentKey == <<g.player.x, g.player.y>>
      targetKey == <<g.player.x + RoundCos(g.player.rotation),
                     g.player.y + RoundSin(g.player.rotation)>>
  IN IF targetKey \in g.doors /\ g.player.keys > 0
     THEN Await("door", [g EXCEPT !.player.keys = @ - 1], targetKey)
     ELSE IF currentKey \in DOMAIN g.buttons
     THEN LET button == g.buttons[currentKey]
          IN IF directionMatch(g.player.rotation, button.direction)
                /\ ~button.toggled
             THEN Await("button",
                        [g EXCEPT !.buttons[currentKey].toggled = TRUE],
                        currentKey)
             ELSE IF button.toggled
                  THEN Return(g, JSString(MSG_BUTTON_ALREADY))
                  ELSE Return(g, JSString(MSG_FACE_BUTTON))
     ELSE IF targetKey \in g.doors
          THEN Return(g, JSString(MSG_NEED_KEY))
          ELSE Return(g, JSString(MSG_NOTHING))

\* variant: the door is opened without a key being spent
useActionKeepKey(g) ==
  LET currentKey == <<g.player.x, g.player.y>>
      targetKey == <<g.player.x + RoundCos(g.player.rotation),
                     g.player.y + RoundSin(g.player.rotation)>>
  IN IF currentKey \in DOMAIN g.buttons
     THEN LET button == g.buttons[currentKey]
          IN IF directionMatch(g.player.rotation, button.direction)
                /\ ~button.toggled
             THEN Await("button",
                        [g EXCEPT !.buttons[currentKey].toggled = TRUE],
                        currentKey)
             ELSE IF button.toggled
                  THEN Return(g, JSString(MSG_BUTTON_ALREADY))
                  ELSE Return(g, JSString(MSG_FACE_BUTTON))
     ELSE IF targetKey \in g.doors
          THEN IF g.player.keys > 0
               THEN Await("door", g, targetKey)
               ELSE Return(g, JSString(MSG_NEED_KEY))
          ELSE Return(g, JSString(MSG_NOTHING))

useAction(g) ==
  LET currentKey == <<g.player.x, g.player.y>>
      targetKey == <<g.player.x + RoundCos(g.player.rotation),
                     g.player.y + RoundSin(g.player.rotation)>>
  IN IF currentKey \in DOMAIN g.buttons
     THEN LET button == g.buttons[currentKey]
          IN IF directionMatch(g.player.rotation, button.direction)
                /\ ~button.toggled
             THEN Await("button",
                        [g EXCEPT !.buttons[currentKey].toggled = TRUE],
                        currentKey)
             ELSE IF button.toggled
                  THEN Return(g, JSString(MSG_BUTTON_ALREADY))
                  ELSE Return(g, JSString(MSG_FACE_BUTTON))
     ELSE IF targetKey \in g.doors
          THEN IF g.player.keys > 0
               THEN Await("door", [g EXCEPT !.player.keys = @ - 1], targetKey)
               ELSE Return(g, JSString(MSG_NEED_KEY))
          ELSE Return(g, JSString(MSG_NOTHING))

\* variant: the opened door is forgotten but its cell stays blocked
doorOpenedStillBlocked(g, targetKey) == [g EXCEPT !.doors = @ \ {targetKey}]

\* useAction after openDoorAsync has resolved
doorOpened(g, targetKey) ==
  [g EXCEPT !.doors = @ \ {targetKey}, !.blocked = @ \ {targetKey}]

\* handlePlayerLanded; kind "win" is triggerWinAnimation suspended on its
\* one-second timer
\* variant: the win animation does not mark the player as moving
handlePlayerLandedWinIdle(g) ==
  LET playerKey == <<g.player.x, g.player.y>>
      g1 == IF playerKey \in g.keys
            THEN [g EXCEPT !.keys = @ \ {playerKey}, !.player.keys = @ + 1]
            ELSE g
  IN IF playerKey \in g1.lava
     THEN Return([g1 EXCEPT !.player.meshDisposed = TRUE], JSString(MSG_LAVA))
     ELSE IF playerKey = g1.exitCell
          THEN [kind |-> "win", g |-> g1,
                result |-> JSString(MSG_WIN), to |-> playerKey]
          ELSE Return(g1, Undefined)

\* variant: the key stays in the collection when it is picked up
handlePlayerLandedKeepKey(g) ==
  LET playerKey == <<g.player.x, g.player.y>>
      g1 == IF playerKey \in g.keys
            THEN [g EXCEPT !.player.keys = @ + 1]
            ELSE g
  IN IF playerKey \in g1.lava
     THEN Return([g1 EXCEPT !.player.meshDisposed = TRUE], JSString(MSG_LAVA))
     ELSE IF playerKey = g1.exitCell
          THEN [kind |-> "win", g |-> [g1 EXCEPT !.player.moving = TRUE],
                result |-> JSString(MSG_WIN), to |-> playerKey]
          ELSE Return(g1, Undefined)

handlePlayerLanded(g) ==
  LET playerKey == <<g.player.x, g.player.y>>
      g1 == IF playerKey \in g.keys
            THEN [g EXCEPT !.keys = @ \ {playerKey}, !.player.keys = @ + 1]
            ELSE g
  IN IF playerKey \in g1.lava
     THEN Return([g1 EXCEPT !.player.meshDisposed = TRUE], JSString(MSG_LAVA))
     ELSE IF playerKey = g1.exitCell
          THEN [kind |-> "win", g |-> [g1 EXCEPT !.player.moving = TRUE],
                result |-> JSString(MSG_WIN), to |-> playerKey]
          ELSE Return(g1, Undefined)

\* movePlayerAsync after the tween has resolved
playerArrived(g, nx, ny) ==
  handlePlayerLanded([g EXCEPT !.player.x = nx, !.player.y = ny,
                               !.player.moving = FALSE])

\* movePlayerAsync awaits handlePlayerLanded and drops its value, and
\* attemptMoveAsync ends on the await of movePlayerAsync: a completed move
\* returns undefined whatever the landing returned
moveResult(landed) == Undefined

\* run(method): the controller operation a bridge method stands for
run(g, method) ==
  IF method = "step" THEN moveForward(g)
  ELSE IF method = "left" THEN turnLeft(g)
  ELSE IF method = "right" THEN turnRight(g)
  ELSE useAction(g)


(***************************************************************************)
(* The bridge: state                                                       *)
(***************************************************************************)
\* new SharedArrayBuffer(1024 * 4) viewed as an Int32Array
BufCells == 1024

\* index of the first payload cell, as the main thread writes it
mainBase == 2

\* index of the first payload cell, as the worker reads it
workerBase == 2

\* the two values of the ready flag (cell 0)
FlagValues == [armed |-> 0, ready |-> 1]

\* variant: the worker arms with the value that means "result published"
armValueReady == FlagValues.ready

\* the value the worker stores in the ready flag before it posts a request
armValue == FlagValues.armed

\* variant: the main thread publishes with the value that means "armed"
readyValueArmed == FlagValues.armed

\* the value the main thread stores in the ready flag to publish a result
readyValue == FlagValues.ready

\* variant: the worker does not wait for the flag
spinExitAtOnce(flag) == TRUE

\* the busy wait of the worker ends when the ready flag is not 0
spinExit(flag) == flag # 0

\* variant: the ready flag is stored first
pubOrderFlagFirst == <<"setFlag", "writeLen", "writeCells">>

\* the order in which handleSyncGameMethod publishes: length, payload, flag
pubOrder == <<"writeLen", "writeCells", "setFlag">>

\* names every object inherits from Object.prototype: levels[name] is a
\* function for them although the registry has no such level
inheritedNames == {"constructor", "toString"}

\* Object.keys('levels')[0]: the first index of the string 'levels'
firstKeyOfLevelsString == "0"

VARIABLES
  buf,             \* sharedData: cell 0 ready flag, cell 1 length, then payload
  persisted,       \* localStorage item 'level': Null or a string
  gameController,  \* PythonREPL.gameController: Null or a GridPuzzle3D
  isReady,         \* PythonREPL.isReady
  inbox,           \* messages posted by the worker, not yet handled
  runQ,            \* runCode messages posted to the worker, not yet handled
  handlers,        \* invocations of handleSyncGameMethod that have not ended
  worker,          \* the worker: position in callGameMethodSync and locals
  issued,          \* number of requests armed so far
  computed,        \* last methodResult, with the number of its request
  lastStore,       \* last store into cell 0: by whom and what
  pre,             \* the controller as it was when the last command began
  script,          \* results still to be published when the encoding is checked
  sessions,        \* sessions constructed and not disposed: now, and at most
                   \* during the last replacement
  console,         \* the console's input mode and block buffer, the line
                   \* entered last and the runCode messages it made
  bridge           \* the message-passing bridge: the calls made, their
                   \* listeners, the messages to the worker, the results
                   \* posted and delivered and the calls completed

vars == <<buf, persisted, gameController, isReady, inbox, runQ, handlers,
          worker, issued, computed, lastStore, pre, script, sessions, console, bridge>>

\* a call of the message-passing bridge that has not completed
NotYet == [t |-> "pending"]

\* the message-passing bridge before any call
newBridge ==
  [requested |-> <<>>, listeners |-> {}, toWorker |-> <<>>, posts |-> <<>>,
   delivered |-> {}, completed |-> <<>>, raised |-> <<>>]

\* the console before anything is entered
newConsole ==
  [isMultiLine |-> FALSE, multiLineBuffer |-> <<>>, currentLine |-> <<>>,
   posted |-> <<>>]

\* the level names (and non-names) the interpreter passes to level()
LevelArgs ==
  {JSString("intro"), JSString("speed"), JSString("bogus"),
   JSString("toString"), JSString("$"), Null}

Methods == {"step", "left", "right", "toggle"}

AnimPcs == {"move", "rotate", "rotateMid", "button", "door", "win"}

PubPcs == {"writeLen", "writeCells", "setFlag"}

\* the main thread is inside the synchronous publishing part of a handler
MainBusy == \E h \in DOMAIN handlers : handlers[h].pc \in PubPcs

RemoveAt(seq, n) == SubSeq(seq, 1, n - 1) \o SubSeq(seq, n + 1, Len(seq))

\* the number of no request: requests are numbered from 0
NoCall == 0 - 1

Init ==
  /\ buf = [c \in 0..(BufCells - 1) |-> 0]
  /\ persisted \in {Null, JSString("intro")}
  /\ gameController = Null
  /\ isReady = FALSE
  /\ inbox = <<>>
  /\ runQ = 0
  /\ handlers = <<>>
  /\ worker = [pc |-> "prelude", boot |-> TRUE, method |-> "", args |-> <<>>, seq |-> NoCall,
               dataLength |-> 0, jsonString |-> <<>>, i |-> 0,
               ret |-> Undefined, retSeq |-> NoCall,
               gameControllerReady |-> FALSE]
  /\ issued = 0
  /\ computed = [seq |-> NoCall, value |-> Undefined]
  /\ lastStore = [by |-> "none", value |-> 0, arming |-> FALSE]
  /\ pre = Null
  /\ script = <<>>
  /\ sessions = [live |-> 0, peak |-> 0]
  /\ console = newConsole
  /\ bridge = newBridge

(***************************************************************************)
(* The worker (public/python-worker.js)                                    *)
(***************************************************************************)
\* callGameMethodSync, first statement: reset the ready flag
Arm(method, args) ==
  /\ buf' = [buf EXCEPT ![0] = armValue]
  /\ worker' = [worker EXCEPT !.pc = "post", !.method = method,
                              !.args = args, !.seq = issued,
                              !.ret = Undefined, !.retSeq = NoCall]
  /\ issued' = issued + 1
  /\ lastStore' = [by |-> "worker", value |-> armValue, arming |-> TRUE]

\* the prelude run by initPyodide ends with level('$')
WorkerPrelude ==
  /\ worker.pc = "prelude"
  /\ issued < MaxCalls
  /\ Arm("level", <<JSString("$")>>)
  /\ UNCHANGED <<persisted, gameController, isReady, inbox, runQ, handlers,
                 computed, pre, script, sessions, console, bridge>>

\* the interpreter, running a submitted block, calls a primitive
WorkerCall ==
  /\ worker.pc = "running"
  /\ issued < MaxCalls
  /\ \/ \E m \in Methods \cup {"restart"} : Arm(m, <<>>)
     \/ \E a \in LevelArgs : Arm("level", <<a>>)
  /\ UNCHANGED <<persisted, gameController, isReady, inbox, runQ, handlers,
                 computed, pre, script, sessions, console, bridge>>

\* callGameMethodSync: postMessage of the request
WorkerPost ==
  /\ worker.pc = "post"
  /\ inbox' = Append(inbox, [type |-> "gameMethodSync",
                             method |-> worker.method, args |-> worker.args,
                             seq |-> worker.seq])
  /\ worker' = [worker EXCEPT !.pc = "spin"]
  /\ UNCHANGED <<buf, persisted, gameController, isReady, runQ, handlers,
                 issued, computed, lastStore, pre, script, sessions, console, bridge>>

\* callGameMethodSync: one evaluation of the busy-wait condition
WorkerSpin ==
  /\ worker.pc = "spin"
  /\ worker' = IF spinExit(buf[0]) THEN [worker EXCEPT !.pc = "readLen"]
               ELSE worker
  /\ UNCHANGED <<buf, persisted, gameController, isReady, inbox, runQ,
                 handlers, issued, computed, lastStore, pre, script, sessions, console, bridge>>

\* callGameMethodSync: read the length cell
WorkerReadLen ==
  /\ worker.pc = "readLen"
  /\ worker' = [worker EXCEPT !.pc = "readCells", !.dataLength = buf[1],
                              !.jsonString = <<>>, !.i = 0]
  /\ UNCHANGED <<buf, persisted, gameController, isReady, inbox, runQ,
                 handlers, issued, computed, lastStore, pre, script, sessions, console, bridge>>

\* the worker leaves a call or a block with an exception: the catch of
\* the runCode case (or of initPyodide) posts an error message
Raise(w) ==
  /\ worker' = [w EXCEPT !.pc = "idle"]
  /\ inbox' = Append(inbox, [type |-> "error", method |-> "", args |-> <<>>,
                             seq |-> NoCall])

\* callGameMethodSync: one iteration of the read loop; Atomics.load throws
\* a RangeError outside the buffer
WorkerReadCell ==
  /\ worker.pc = "readCells"
  /\ worker.i < worker.dataLength
  /\ IF workerBase + worker.i \in DOMAIN buf
     THEN /\ worker' =
               [worker EXCEPT
                  !.jsonString =
                     Append(@, fromCharCode(buf[workerBase + worker.i])),
                  !.i = @ + 1]
          /\ UNCHANGED inbox
     ELSE Raise(worker)
  /\ UNCHANGED <<buf, persisted, gameController, isReady, runQ, handlers,
                 issued, computed, lastStore, pre, script, sessions, console, bridge>>

\* what callGameMethodSync returns for a parsed response
workerResponsePlain(response) == response

\* callGameMethodSync: the Python global gameControllerReady after the
\* response; it is set when the response is the sentinel
marksReady(ready, response) == ready \/ response = JSString(SENTINEL)

workerResponse(response) ==
  IF response = JSString(SENTINEL) THEN JSString(MSG_LEVEL_LOADED)
  ELSE response

\* callGameMethodSync: JSON.parse and return; after the prelude's call
\* initPyodide posts the ready message
WorkerReturn ==
  /\ worker.pc = "readCells"
  /\ worker.i >= worker.dataLength
  /\ LET response == JSONparse(worker.jsonString)
     IN IF response = SyntaxError
        THEN Raise(worker)
        ELSE /\ worker' = [worker EXCEPT
                             !.pc = IF worker.boot THEN "idle" ELSE "running",
                             !.boot = FALSE,
                             !.ret = workerResponse(response),
                             !.retSeq = worker.seq,
                             !.gameControllerReady =
                                marksReady(@, response)]
             /\ inbox' = IF worker.boot
                         THEN Append(inbox, [type |-> "ready", method |-> "",
                                             args |-> <<>>, seq |-> NoCall])
                         ELSE inbox
  /\ UNCHANGED <<buf, persisted, gameController, isReady, runQ, handlers,
                 issued, computed, lastStore, pre, script, sessions, console, bridge>>

\* onmessage, case runCode: the block starts to run
WorkerRunCode ==
  /\ worker.pc = "idle"
  /\ runQ > 0
  /\ runQ' = runQ - 1
  /\ worker' = [worker EXCEPT !.pc = "running"]
  /\ UNCHANGED <<buf, persisted, gameController, isReady, inbox, handlers,
                 issued, computed, lastStore, pre, script, sessions, console, bridge>>

\* onmessage, case runCode: the block has run, its output is posted
WorkerResult ==
  /\ worker.pc = "running"
  /\ worker' = [worker EXCEPT !.pc = "idle"]
  /\ inbox' = Append(inbox, [type |-> "result", method |-> "", args |-> <<>>,
                             seq |-> NoCall])
  /\ UNCHANGED <<buf, persisted, gameController, isReady, runQ, handlers,
                 issued, computed, lastStore, pre, script, sessions, console, bridge>>


(***************************************************************************)
(* The main thread (src/python-repl.ts)                                    *)
(***************************************************************************)
\* a handler whose methodResult is known goes on to publish it: the JSON
\* text and its length are computed in the same synchronous run
startPublish(h, result) ==
  [h EXCEPT !.pc = pubOrder[1], !.methodResult = result,
            !.json = JSONstringify(Coalesce(result)), !.i = 0]

\* a handler continues with the outcome of (a part of) a command
continue(h, o) ==
  IF o.kind = "return" THEN startPublish(h, o.result)
  ELSE [h EXCEPT !.pc = o.kind, !.to = o.to]

\* the step of the publication that follows pc, "done" after the last one
nextPub(pc) ==
  LET n == CHOOSE k \in DOMAIN pubOrder : pubOrder[k] = pc
  IN IF n = Len(pubOrder) THEN "done" ELSE pubOrder[n + 1]

\* handlers[n] moves to pc; a handler that is done has returned and is gone
advance(n, h, pc) ==
  IF pc = "done" THEN RemoveAt(handlers, n)
  ELSE [handlers EXCEPT ![n] = [h EXCEPT !.pc = pc]]

\* the level a name stands for in handleSyncGameMethod: "own" for a level of
\* the registry, "inherited" for a property of Object.prototype, else "none"
levelEntry(name) ==
  IF name \in DOMAIN levels THEN "own"
  ELSE IF name \in inheritedNames THEN "inherited"
  ELSE "none"

\* handleSyncGameMethod, the name the level branch resolves
resolveLevelNoSentinel(method, args) ==
  IF method = "restart" THEN persisted
  ELSE IF args = <<>> THEN Undefined ELSE args[1]

resolveLevel(method, args) ==
  LET a == IF method = "restart" THEN persisted
           ELSE IF args = <<>> THEN Undefined ELSE args[1]
  IN IF a = JSString("$")
     THEN (IF persisted = Null THEN JSString(firstKeyOfLevelsString)
           ELSE persisted)
     ELSE a

\* a session that is replaced stops rendering: the animations its commands
\* wait for never complete
orphan(hs) ==
  [n \in DOMAIN hs |->
     IF hs[n].pc \in AnimPcs THEN [hs[n] EXCEPT !.pc = "orphan"] ELSE hs[n]]

\* variant: the replaced session is never disposed
switchOrderNoDispose == <<"construct">>

\* handleSyncGameMethod, level branch: the old session is disposed, then the
\* new one is constructed
switchOrder == <<"dispose", "construct">>

\* the part of a replacement that runs before the constructor is called
beforeConstruct(order) ==
  IF \E k \in DOMAIN order : order[k] = "construct"
  THEN SubSeq(order, 1,
              (CHOOSE k \in DOMAIN order : order[k] = "construct") - 1)
  ELSE order

\* the live sessions after one statement of a replacement
switchStep(s, what) ==
  IF what = "dispose"
  THEN [s EXCEPT !.live = IF gameController # Null /\ ~gameController.disposed
                          THEN @ - 1 ELSE @]
  ELSE [live |-> s.live + 1,
        peak |-> IF s.live + 1 > s.peak THEN s.live + 1 ELSE s.peak]

\* the live sessions after the statements of order have run
RECURSIVE switchFrom(_, _)
switchFrom(s, order) ==
  IF order = <<>> THEN s
  ELSE switchFrom(switchStep(s, Head(order)), Tail(order))

switchSessions(order) ==
  switchFrom([live |-> sessions.live, peak |-> sessions.live], order)

\* handleSyncGameMethod, the call of gameController.run(method): the
\* command runs up to its first await, or to its end
runCommand(h0) ==
  LET o == run(gameController, h0.method)
  IN /\ gameController' = o.g
     /\ pre' = gameController
     /\ handlers' = Append(handlers, continue(h0, o))
     /\ computed' = IF o.kind = "return"
                    THEN [seq |-> h0.seq, value |-> o.result]
                    ELSE computed

\* a new invocation of handleSyncGameMethod
newHandler(seq, method) ==
  [seq |-> seq, method |-> method, pc |-> "start",
   methodResult |-> Undefined, json |-> <<>>, i |-> 0, to |-> <<0, 0>>]

\* onmessage, case gameMethodSync: handleSyncGameMethod up to its first
\* await that waits for a later task, or up to the publication
HandleSync(msg) ==
  LET h0 == newHandler(msg.seq, msg.method)
      l == resolveLevel(msg.method, msg.args)
  IN IF msg.method \in {"level", "restart"}
     THEN IF l.t # "string"
          THEN /\ handlers' =
                    Append(handlers, startPublish(h0, JSString(MSG_SELECT_FIRST)))
               /\ computed' = [seq |-> msg.seq,
                               value |-> JSString(MSG_SELECT_FIRST)]
               /\ UNCHANGED <<persisted, gameController, pre, sessions>>
          ELSE IF l.s = "" \/ levelEntry(l.s) = "none"
          THEN /\ handlers' =
                    Append(handlers, startPublish(h0, JSString(MSG_UNKNOWN_LEVEL)))
               /\ computed' = [seq |-> msg.seq,
                               value |-> JSString(MSG_UNKNOWN_LEVEL)]
               /\ UNCHANGED <<persisted, gameController, pre, sessions>>
          ELSE IF levelEntry(l.s) = "inherited"
          THEN \* level() is no level: the old session is disposed, then
               \* the constructor throws on the missing MAP
               /\ persisted' = l
               /\ gameController' =
                    IF gameController = Null THEN Null
                    ELSE dispose(gameController)
               /\ handlers' = IF gameController = Null THEN handlers
                              ELSE orphan(handlers)
               /\ sessions' = switchSessions(beforeConstruct(switchOrder))
               /\ UNCHANGED <<computed, pre>>
          ELSE /\ persisted' = l
               /\ gameController' = NewGridPuzzle3D(levels[l.s])
               /\ handlers' =
                    Append(IF gameController = Null THEN handlers
                           ELSE orphan(handlers),
                           [h0 EXCEPT !.pc = "loading"])
               /\ sessions' = switchSessions(switchOrder)
               /\ UNCHANGED <<computed, pre>>
     ELSE IF gameController = Null
     THEN /\ handlers' =
               Append(handlers, startPublish(h0, JSString(MSG_SELECT_LEVEL)))
          /\ computed' = [seq |-> msg.seq, value |-> JSString(MSG_SELECT_LEVEL)]
          /\ UNCHANGED <<persisted, gameController, pre, sessions>>
     ELSE IF ~gameController.loaded \/ gameController.disposed
     THEN \* the session has no player (or no scene) any more: run throws
          UNCHANGED <<persisted, gameController, handlers, computed, pre,
                      sessions>>
     ELSE runCommand(h0) /\ UNCHANGED <<persisted, sessions>>

\* the main thread handles the next message of the worker
MainReceive ==
  /\ inbox # <<>>
  /\ ~MainBusy
  /\ inbox' = Tail(inbox)
  /\ LET msg == Head(inbox)
     IN IF msg.type = "gameMethodSync"
        THEN HandleSync(msg) /\ UNCHANGED isReady
        ELSE /\ isReady' = (isReady \/ msg.type = "ready")
             /\ UNCHANGED <<persisted, gameController, handlers, computed,
                            pre, sessions>>
  /\ UNCHANGED <<buf, runQ, worker, issued, lastStore, script, console,
                 bridge>>

\* handleEnter -> executeCode: a complete block is posted to the worker
EnterCode ==
  /\ isReady
  /\ ~MainBusy
  /\ runQ + Len(inbox) < MaxQueue
  /\ runQ' = runQ + 1
  /\ UNCHANGED <<buf, persisted, gameController, isReady, inbox, handlers,
                 worker, issued, computed, lastStore, pre, script, sessions, console, bridge>>

\* variant: the player of the new session takes over the facing the player
\* had in the session before
LoadDoneKeepFacing ==
  \E n \in DOMAIN handlers : \E ok \in BOOLEAN :
    /\ ~MainBusy
    /\ handlers[n].pc = "loading"
    /\ IF ok /\ initMap(gameController.MAP).ok
       THEN /\ gameController' =
                 [initializeGameAsync(gameController) EXCEPT
                    !.player.rotation =
                      IF pre = Null THEN @ ELSE pre.player.rotation]
            /\ handlers' = [handlers EXCEPT
                              ![n] = startPublish(@, JSString(SENTINEL))]
            /\ computed' = [seq |-> handlers[n].seq,
                            value |-> JSString(SENTINEL)]
       ELSE /\ handlers' = RemoveAt(handlers, n)
            /\ UNCHANGED <<gameController, computed>>
    /\ UNCHANGED <<buf, persisted, isReady, inbox, runQ, worker, issued,
                   lastStore, pre, script, sessions, console, bridge>>

\* await initializeGameAsync(): the level is built and the render loop
\* started, or loading an asset fails and the handler ends with the exception
LoadDone ==
  \E n \in DOMAIN handlers : \E ok \in BOOLEAN :
    /\ ~MainBusy
    /\ handlers[n].pc = "loading"
    /\ IF ok /\ initMap(gameController.MAP).ok
       THEN /\ gameController' = initializeGameAsync(gameController)
            /\ handlers' = [handlers EXCEPT
                              ![n] = startPublish(@, JSString(SENTINEL))]
            /\ computed' = [seq |-> handlers[n].seq,
                            value |-> JSString(SENTINEL)]
       ELSE /\ handlers' = RemoveAt(handlers, n)
            /\ UNCHANGED <<gameController, computed>>
    /\ UNCHANGED <<buf, persisted, isReady, inbox, runQ, worker, issued,
                   lastStore, pre, script, sessions, console, bridge>>

\* the continuation of a command when what it waits for completes
resume(g, h) ==
  IF h.pc = "move" THEN playerArrived(g, h.to[1], h.to[2])
  ELSE IF h.pc = "win" THEN Return(g, JSString(MSG_WIN))
  ELSE IF h.pc \in {"rotate", "rotateMid"}
       THEN Return(rotateFrameLast(g, h.to[1], h.to[2]), Undefined)
  ELSE IF h.pc = "button" THEN Return(g, JSString(MSG_BUTTON_ACTIVATED))
  ELSE Return(doorOpened(g, h.to), JSString(MSG_DOOR_OPENED))

\* the value the command of handler h returns when o ends it
commandResult(h, o) ==
  IF h.pc \in {"move", "win"} THEN moveResult(o) ELSE o.result

\* what a command waits for completes: the last render frame of its
\* animation, or the one-second timer of triggerWinAnimation
AwaitDone ==
  \E n \in DOMAIN handlers :
    /\ ~MainBusy
    /\ handlers[n].pc \in AnimPcs
    /\ LET h == handlers[n]
           o == resume(gameController, h)
           r == commandResult(h, o)
       IN /\ gameController' = o.g
          /\ IF o.kind = "win"
             THEN /\ handlers' = [handlers EXCEPT ![n].pc = "win"]
                  /\ UNCHANGED computed
             ELSE /\ handlers' = [handlers EXCEPT ![n] = startPublish(h, r)]
                  /\ computed' = [seq |-> h.seq, value |-> r]
    /\ UNCHANGED <<buf, persisted, isReady, inbox, runQ, worker, issued,
                   lastStore, pre, script, sessions, console, bridge>>

\* a render frame in the middle of a rotation
FrameHalf ==
  \E n \in DOMAIN handlers :
    /\ ~MainBusy
    /\ handlers[n].pc = "rotate"
    /\ gameController' = rotateFrameHalf(gameController, handlers[n].to[1],
                                         handlers[n].to[2])
    /\ handlers' = [handlers EXCEPT ![n].pc = "rotateMid"]
    /\ UNCHANGED <<buf, persisted, isReady, inbox, runQ, worker, issued,
                   computed, lastStore, pre, script, sessions, console, bridge>>

\* handleSyncGameMethod: Atomics.store of the length
WriteLen ==
  \E n \in DOMAIN handlers :
    /\ handlers[n].pc = "writeLen"
    /\ buf' = [buf EXCEPT ![1] = Len(handlers[n].json)]
    /\ handlers' = advance(n, handlers[n], nextPub("writeLen"))
    /\ UNCHANGED <<persisted, gameController, isReady, inbox, runQ, worker,
                   issued, computed, lastStore, pre, script, sessions, console, bridge>>

\* handleSyncGameMethod: one iteration of the write loop; Atomics.store
\* throws a RangeError outside the buffer, which ends the handler
WriteCell ==
  \E n \in DOMAIN handlers :
    LET h == handlers[n]
    IN /\ h.pc = "writeCells"
       /\ IF mainBase + h.i \in DOMAIN buf
          THEN /\ buf' = [buf EXCEPT ![mainBase + h.i] = h.json[h.i + 1]]
               /\ handlers' =
                    IF h.i + 1 < Len(h.json)
                    THEN [handlers EXCEPT ![n].i = h.i + 1]
                    ELSE advance(n, [h EXCEPT !.i = h.i + 1],
                                 nextPub("writeCells"))
          ELSE /\ handlers' = RemoveAt(handlers, n)
               /\ UNCHANGED buf
       /\ UNCHANGED <<persisted, gameController, isReady, inbox, runQ, worker,
                      issued, computed, lastStore, pre, script, sessions, console, bridge>>

\* handleSyncGameMethod: Atomics.store of 1 into the ready flag (and notify)
SetFlag ==
  \E n \in DOMAIN handlers :
    /\ handlers[n].pc = "setFlag"
    /\ buf' = [buf EXCEPT ![0] = readyValue]
    /\ lastStore' = [by |-> "main", value |-> readyValue, arming |-> FALSE]
    /\ handlers' = advance(n, handlers[n], nextPub("setFlag"))
    /\ UNCHANGED <<persisted, gameController, isReady, inbox, runQ, worker,
                   issued, computed, pre, script, sessions, console, bridge>>

Next ==
  \/ WorkerPrelude
  \/ WorkerCall
  \/ WorkerPost
  \/ WorkerSpin
  \/ WorkerReadLen
  \/ WorkerReadCell
  \/ WorkerReturn
  \/ WorkerRunCode
  \/ WorkerResult
  \/ MainReceive
  \/ EnterCode
  \/ LoadDone
  \/ AwaitDone
  \/ FrameHalf
  \/ WriteLen
  \/ WriteCell
  \/ SetFlag

Spec == Init /\ [][Next]_vars

\* the scheduling the browser guarantees: posted messages are delivered,
\* render frames and timers keep coming, asset loads settle, and neither
\* thread stops in the middle of its code
Fairness ==
  /\ WF_vars(MainReceive)
  /\ WF_vars(LoadDone)
  /\ WF_vars(AwaitDone)
  /\ WF_vars(WriteLen)
  /\ WF_vars(WriteCell)
  /\ WF_vars(SetFlag)
  /\ WF_vars(WorkerPost)
  /\ WF_vars(WorkerSpin)
  /\ WF_vars(WorkerReadLen)
  /\ WF_vars(WorkerReadCell)
  /\ WF_vars(WorkerReturn)

FairSpec == Spec /\ Fairness

(***************************************************************************)
(* The controller alone: commands are run one after the other on a loaded  *)
(* session, as the dispatcher runs them, without the bridge around them    *)
(***************************************************************************)
idleWorker ==
  [pc |-> "idle", boot |-> FALSE, method |-> "", args |-> <<>>,
   seq |-> NoCall, dataLength |-> 0, jsonString |-> <<>>, i |-> 0,
   ret |-> Undefined, retSeq |-> NoCall, gameControllerReady |-> FALSE]

GameInit ==
  /\ buf = [c \in 0..(BufCells - 1) |-> 0]
  /\ \E name \in DOMAIN levels :
       /\ persisted = JSString(name)
       /\ gameController = initializeGameAsync(NewGridPuzzle3D(levels[name]))
  /\ isReady = TRUE
  /\ inbox = <<>>
  /\ runQ = 0
  /\ handlers = <<>>
  /\ worker = idleWorker
  /\ issued = 0
  /\ computed = [seq |-> NoCall, value |-> Undefined]
  /\ lastStore = [by |-> "none", value |-> 0, arming |-> FALSE]
  /\ pre = Null
  /\ script = <<>>
  /\ sessions = [live |-> 1, peak |-> 1]
  /\ console = newConsole
  /\ bridge = newBridge

\* await this.gameController.run(method), called when no command is running
GameRun ==
  /\ handlers = <<>>
  /\ \E m \in Methods : runCommand(newHandler(0, m))
  /\ UNCHANGED <<buf, persisted, isReady, inbox, runQ, worker, issued,
                 lastStore, script, sessions, console, bridge>>

\* the awaited command has ended and its result has been taken
GameReturn ==
  /\ handlers # <<>>
  /\ handlers[1].pc \in PubPcs
  /\ handlers' = Tail(handlers)
  /\ UNCHANGED <<buf, persisted, gameController, isReady, inbox, runQ, worker,
                 issued, computed, lastStore, pre, script, sessions, console, bridge>>

GameNext == GameRun \/ AwaitDone \/ FrameHalf \/ GameReturn

GameSpec == GameInit /\ [][GameNext]_vars

(***************************************************************************)
(* The controller behind the message-passing bridge: the worker posts      *)
(* callGameMethod and awaits the answer as a promise, so a request can be  *)
(* handled while the command of an earlier one is still in its animation   *)
(***************************************************************************)
\* requests handled at the same time
MaxInFlight == 2

\* the controller method each Python function names in callGameMethod
gameMethod ==
  [step |-> "moveForward", left |-> "turnLeft", right |-> "turnRight",
   toggle |-> "useAction"]

\* this.gameController[method](...args)
invoke(g, method) ==
  IF method = "moveForward" THEN moveForward(g)
  ELSE IF method = "turnLeft" THEN turnLeft(g)
  ELSE IF method = "turnRight" THEN turnRight(g)
  ELSE useAction(g)

\* onmessage, case callGameMethod: the method is called and awaited
CallGameMethod ==
  /\ ~MainBusy
  /\ Len(handlers) < MaxInFlight
  /\ \E m \in Methods :
       LET h0 == newHandler(0, m)
           o == invoke(gameController, gameMethod[m])
       IN /\ gameController' = o.g
          /\ pre' = gameController
          /\ handlers' = Append(handlers, continue(h0, o))
          /\ computed' = IF o.kind = "return"
                         THEN [seq |-> h0.seq, value |-> o.result]
                         ELSE computed
  /\ UNCHANGED <<buf, persisted, isReady, inbox, runQ, worker, issued,
                 lastStore, script, sessions, console, bridge>>

\* onmessage, case callGameMethod: gameMethodResult is posted to the worker
PostResult ==
  \E n \in DOMAIN handlers :
    /\ handlers[n].pc \in PubPcs
    /\ handlers' = RemoveAt(handlers, n)
    /\ UNCHANGED <<buf, persisted, gameController, isReady, inbox, runQ,
                   worker, issued, computed, lastStore, pre, script, sessions, console, bridge>>

OverlapNext == CallGameMethod \/ AwaitDone \/ FrameHalf \/ PostResult

OverlapSpec == GameInit /\ [][OverlapNext]_vars

(***************************************************************************)
(* The controller on grids that are not in the registry: new               *)
(* GridPuzzle3D(MAP) takes any grid, also one without spawn or exit, and   *)
(* one where a button stands next to a door                                *)
(***************************************************************************)
\* a key, then a button whose direction is the player's, then a door
MAP_buttonDoor ==
  << <<"#", "#", "#", "#", "#", "#", "#">>,
     <<"#", "S", "K", "y", "d", "E", "#">>,
     <<"#", "#", "#", "#", "#", "#", "#">> >>

\* a key next to the exit, and a second spawn cell
MAP_twoSpawns ==
  << <<"#", "#", "#", "#", "#", "#">>,
     <<"#", "S", "S", "K", "E", "#">>,
     <<"#", "#", "#", "#", "#", "#">> >>

MAP_noSpawn ==
  << <<"#", "#", "#", "#">>,
     <<"#", ".", "E", "#">>,
     <<"#", "#", "#", "#">> >>

MAP_noExit ==
  << <<"#", "#", "#", "#">>,
     <<"#", "S", ".", "#">>,
     <<"#", "#", "#", "#">> >>

MAP_neither ==
  << <<"#", "#", "#">>,
     <<"#", "K", "#">>,
     <<"#", "#", "#">> >>

\* two keys, a door, a third key and a second door
MAP_keysDoors ==
  << <<"#", "#", "#", "#", "#", "#", "#", "#", "#">>,
     <<"#", "S", "K", "K", "d", "K", "d", "E", "#">>,
     <<"#", "#", "#", "#", "#", "#", "#", "#", "#">> >>

\* a box with a free cell and lava behind it, and a second box before lava
MAP_boxesLava ==
  << <<"#", "#", "#", "#", "#", "#", "#", "#", "#">>,
     <<"#", "S", "B", ".", "~", "B", "~", "E", "#">>,
     <<"#", "#", "#", "#", "#", "#", "#", "#", "#">> >>

\* a key, the exit, and a door behind the exit
MAP_exitDoor ==
  << <<"#", "#", "#", "#", "#", "#", "#">>,
     <<"#", "S", "K", "E", "d", ".", "#">>,
     <<"#", "#", "#", "#", "#", "#", "#">> >>

Grids ==
  {MAP_buttonDoor, MAP_twoSpawns, MAP_noSpawn, MAP_noExit, MAP_neither,
   MAP_keysDoors, MAP_boxesLava, MAP_exitDoor}

\* new GridPuzzle3D(MAP) has been constructed and initializeGameAsync is
\* awaited
GridInit ==
  /\ buf = [c \in 0..(BufCells - 1) |-> 0]
  /\ persisted = Null
  /\ \E MAP \in Grids : gameController = NewGridPuzzle3D(MAP)
  /\ isReady = TRUE
  /\ inbox = <<>>
  /\ runQ = 0
  /\ handlers = <<[newHandler(0, "level") EXCEPT !.pc = "loading"]>>
  /\ worker = idleWorker
  /\ issued = 0
  /\ computed = [seq |-> NoCall, value |-> Undefined]
  /\ lastStore = [by |-> "none", value |-> 0, arming |-> FALSE]
  /\ pre = Null
  /\ script = <<>>
  /\ sessions = [live |-> 1, peak |-> 1]
  /\ console = newConsole
  /\ bridge = newBridge

\* a command is run on the session once it is loaded
GridRun == gameController.loaded /\ GameRun

GridNext == LoadDone \/ GridRun \/ AwaitDone \/ FrameHalf \/ GameReturn

GridSpec == GridInit /\ [][GridNext]_vars

(***************************************************************************)
(* The message-passing bridge, both sides: the worker's callGameMethod     *)
(* posts a request with a fresh messageId and resolves its promise when    *)
(* the gameMethodResult with that messageId arrives; the main thread       *)
(* answers each request once                                               *)
(***************************************************************************)
\* calls made through the message-passing bridge
MaxBridgeCalls == 3

\* Game controller not ready
MSG_NOT_READY ==
  Str(<<"G", "a", "m", "e", " ", "c", "o", "n", "t", "r", "o", "l", "l",
        "e", "r", " ", "n", "o", "t", " ", "r", "e", "a", "d", "y">>)

\* this.gameController[method] is not a function
MSG_NOT_A_FUNCTION ==
  Str(<<"t", "h", "i", "s", ".", "g", "a", "m", "e", "C", "o", "n", "t",
        "r", "o", "l", "l", "e", "r", "[", "m", "e", "t", "h", "o", "d",
        "]", " ", "i", "s", " ", "n", "o", "t", " ", "a", " ", "f", "u",
        "n", "c", "t", "i", "o", "n">>)

\* the names passed to callGameMethod: the four methods, a name the
\* controller does not have and a property that is no function
BridgeMethods ==
  {gameMethod[m] : m \in Methods} \cup {"jump", "player"}

\* the names for which this.gameController[method] is truthy
controllerProperties == {gameMethod[m] : m \in Methods} \cup {"player"}

\* the session loaded when the bridge is exercised, and no controller at all
BridgeSessions ==
  {Null} \cup {initializeGameAsync(NewGridPuzzle3D(levels[name])) :
                 name \in {"speed"}}

BridgeInit ==
  /\ buf = [c \in 0..(BufCells - 1) |-> 0]
  /\ persisted = Null
  /\ gameController \in BridgeSessions
  /\ isReady = TRUE
  /\ inbox = <<>>
  /\ runQ = 0
  /\ handlers = <<>>
  /\ worker = [idleWorker EXCEPT !.pc = "running"]
  /\ issued = 0
  /\ computed = [seq |-> NoCall, value |-> Undefined]
  /\ lastStore = [by |-> "none", value |-> 0, arming |-> FALSE]
  /\ pre = Null
  /\ script = <<>>
  /\ sessions = [live |-> IF gameController = Null THEN 0 ELSE 1,
                 peak |-> IF gameController = Null THEN 0 ELSE 1]
  /\ console = newConsole
  /\ bridge = newBridge

\* callGameMethod in the worker: the listener is added and the request posted
register(b, method) ==
  [b EXCEPT !.requested = Append(@, method),
            !.listeners = @ \cup {Len(b.requested) + 1},
            !.posts = Append(@, 0),
            !.completed = Append(@, NotYet),
            !.raised = Append(@, Undefined)]

request(b, method) ==
  [type |-> "callGameMethod", method |-> method, args |-> <<>>,
   seq |-> Len(b.requested) + 1]

\* a task of the interpreter awaits callGameMethod(method)
AsyncCall ==
  /\ Len(bridge.requested) < MaxBridgeCalls
  /\ Cardinality(bridge.listeners) < MaxInFlight
  /\ \E method \in BridgeMethods :
       /\ bridge' = register(bridge, method)
       /\ inbox' = Append(inbox, request(bridge, method))
  /\ UNCHANGED <<buf, persisted, gameController, isReady, runQ, handlers,
                 worker, issued, computed, lastStore, pre, script, sessions,
                 console>>

\* postMessage of a gameMethodResult
postResult(b, messageId, result, error) ==
  [b EXCEPT !.toWorker = Append(@, [type |-> "gameMethodResult",
                                    messageId |-> messageId,
                                    result |-> result, error |-> error]),
            !.posts[messageId] = @ + 1]

\* onmessage of the main thread, case callGameMethod: without the controller
\* or the method the error is posted; a call that throws is caught and its
\* message posted; else the method is called and awaited
MainCallGameMethod ==
  /\ ~MainBusy
  /\ inbox # <<>>
  /\ Head(inbox).type = "callGameMethod"
  /\ inbox' = Tail(inbox)
  /\ LET msg == Head(inbox)
     IN IF gameController = Null \/ msg.method \notin controllerProperties
        THEN /\ bridge' = postResult(bridge, msg.seq, Undefined,
                                     JSString(MSG_NOT_READY))
             /\ UNCHANGED <<gameController, handlers, computed, pre>>
        ELSE IF msg.method \notin {gameMethod[m] : m \in Methods}
        THEN /\ bridge' = postResult(bridge, msg.seq, Undefined,
                                     JSString(MSG_NOT_A_FUNCTION))
             /\ UNCHANGED <<gameController, handlers, computed, pre>>
        ELSE LET h0 == newHandler(msg.seq, msg.method)
                 o == invoke(gameController, msg.method)
             IN /\ gameController' = o.g
                /\ pre' = gameController
                /\ handlers' = Append(handlers, continue(h0, o))
                /\ computed' = IF o.kind = "return"
                               THEN [seq |-> h0.seq, value |-> o.result]
                               ELSE computed
                /\ UNCHANGED bridge
  /\ UNCHANGED <<buf, persisted, isReady, runQ, worker, issued, lastStore,
                 script, sessions, console>>

\* onmessage of the main thread, case callGameMethod: the awaited method has
\* returned and its result is posted
PostGameMethodResult ==
  \E n \in DOMAIN handlers :
    /\ handlers[n].pc \in PubPcs
    /\ handlers' = RemoveAt(handlers, n)
    /\ bridge' = postResult(bridge, handlers[n].seq,
                            handlers[n].methodResult, Undefined)
    /\ UNCHANGED <<buf, persisted, gameController, isReady, inbox, runQ,
                   worker, issued, computed, lastStore, pre, script, sessions,
                   console>>

\* variant: the listener does not compare the messageId
completesAny(messageId, msg) == msg.type = "gameMethodResult"

\* responseHandler: the message is the answer to the call messageId
completes(messageId, msg) ==
  msg.type = "gameMethodResult" /\ msg.messageId = messageId

\* the listeners of the worker see a message of the main thread: those whose
\* call it answers are removed and resolve their promise with e.data.result
deliver(b, msg, resolved) ==
  LET matched == {id \in b.listeners : completes(id, msg)}
  IN [b EXCEPT !.toWorker = Tail(@),
               !.listeners = @ \ matched,
               !.delivered = IF msg.type = "gameMethodResult"
                             THEN @ \cup {msg.messageId} ELSE @,
               !.completed = [k \in DOMAIN @ |->
                                IF k \in matched THEN resolved ELSE @[k]],
               !.raised = [k \in DOMAIN @ |->
                             IF k \in matched THEN msg.error ELSE @[k]]]

\* a message event in the worker, whose tasks are all awaiting
WorkerOnResult ==
  /\ bridge.toWorker # <<>>
  /\ bridge' = deliver(bridge, Head(bridge.toWorker),
                       Head(bridge.toWorker).result)
  /\ UNCHANGED <<buf, persisted, gameController, isReady, inbox, runQ,
                 handlers, worker, issued, computed, lastStore, pre, script,
                 sessions, console>>

BridgeNext ==
  \/ AsyncCall
  \/ MainCallGameMethod
  \/ AwaitDone
  \/ FrameHalf
  \/ PostGameMethodResult
  \/ WorkerOnResult

BridgeSpec == BridgeInit /\ [][BridgeNext]_vars

(***************************************************************************)
(* Sessions in a row: between two commands of a session of a registry      *)
(* level, restart or level(name) is handled and replaces the session       *)
(***************************************************************************)
\* the levels that level(name) is called with: one with a key, a door, a
\* box and lava, and the corridor with a box before lava
SwitchedTo == {"keys", "intro"}

\* handleSyncGameMethod for restart or level(name), called when no command
\* is running
GameLevel ==
  /\ handlers = <<>>
  /\ \E msg \in {[seq |-> 0, method |-> "restart", args |-> <<>>]}
        \cup {[seq |-> 0, method |-> "level", args |-> <<JSString(name)>>] :
                 name \in SwitchedTo} :
       HandleSync(msg)
  /\ UNCHANGED <<buf, isReady, inbox, runQ, worker, issued, lastStore,
                 script, console, bridge>>

RestartNext ==
  \/ GridRun
  \/ GameLevel
  \/ LoadDone
  \/ AwaitDone
  \/ FrameHalf
  \/ GameReturn

RestartSpec == GameInit /\ [][RestartNext]_vars

(***************************************************************************)
(* The blocking message-passing bridge: callGameMethodSync posts the       *)
(* request and then loops on `completed` without returning to the event    *)
(* loop of the worker; a message event is dispatched only when no task of  *)
(* the worker is running                                                   *)
(***************************************************************************)
\* a session loaded from any level of the registry, and no controller at all
BlockingSessions ==
  {Null} \cup {initializeGameAsync(NewGridPuzzle3D(levels[name])) :
                 name \in DOMAIN levels}

BlockingInit ==
  /\ buf = [c \in 0..(BufCells - 1) |-> 0]
  /\ persisted = Null
  /\ gameController \in BlockingSessions
  /\ isReady = TRUE
  /\ inbox = <<>>
  /\ runQ = 0
  /\ handlers = <<>>
  /\ worker = idleWorker
  /\ issued = 0
  /\ computed = [seq |-> NoCall, value |-> Undefined]
  /\ lastStore = [by |-> "none", value |-> 0, arming |-> FALSE]
  /\ pre = Null
  /\ script = <<>>
  /\ sessions = [live |-> IF gameController = Null THEN 0 ELSE 1,
                 peak |-> IF gameController = Null THEN 0 ELSE 1]
  /\ console = newConsole
  /\ bridge = newBridge

\* the runCode messages waiting for the worker
runCodeWaiting ==
  {n \in DOMAIN bridge.toWorker : bridge.toWorker[n].type = "runCode"}

\* handlePythonInput: a block is posted to the worker
PostRunCode ==
  /\ Cardinality(runCodeWaiting) < MaxQueue
  /\ bridge' = [bridge EXCEPT
                  !.toWorker = Append(@, [type |-> "runCode", messageId |-> 0,
                                          result |-> Undefined,
                                          error |-> Undefined])]
  /\ UNCHANGED <<buf, persisted, gameController, isReady, inbox, runQ,
                 handlers, worker, issued, computed, lastStore, pre, script,
                 sessions, console>>

\* the event loop of the worker, no task running, dispatches the next
\* message: runCode starts the block, anything is shown to the listeners
WorkerOnMessage ==
  /\ worker.pc = "idle"
  /\ bridge.toWorker # <<>>
  /\ bridge' = deliver(bridge, Head(bridge.toWorker),
                       IF Head(bridge.toWorker).error = Undefined
                       THEN Head(bridge.toWorker).result ELSE Null)
  /\ worker' = IF Head(bridge.toWorker).type = "runCode"
               THEN [worker EXCEPT !.pc = "running"] ELSE worker
  /\ UNCHANGED <<buf, persisted, gameController, isReady, inbox, runQ,
                 handlers, issued, computed, lastStore, pre, script,
                 sessions, console>>

\* callGameMethodSync up to its loop: listener, request, then the wait
SyncCall ==
  /\ worker.pc = "running"
  /\ Len(bridge.requested) < MaxBridgeCalls
  /\ \E method \in BridgeMethods :
       /\ bridge' = register(bridge, method)
       /\ inbox' = Append(inbox, request(bridge, method))
       /\ worker' = [worker EXCEPT !.pc = "wait", !.method = method,
                                   !.seq = Len(bridge.requested) + 1,
                                   !.ret = Undefined, !.retSeq = NoCall]
  /\ UNCHANGED <<buf, persisted, gameController, isReady, runQ, handlers,
                 issued, computed, lastStore, pre, script, sessions, console>>

\* one round of `while (!completed)`: the call returns the result (or
\* throws the error) once completed is set, and goes round again if not
BusyWait ==
  /\ worker.pc = "wait"
  /\ worker' = IF bridge.completed[worker.seq] # NotYet
               THEN [worker EXCEPT !.pc = "running",
                                   !.ret = bridge.completed[worker.seq],
                                   !.retSeq = worker.seq]
               ELSE worker
  /\ UNCHANGED <<buf, persisted, gameController, isReady, inbox, runQ,
                 handlers, issued, computed, lastStore, pre, script,
                 sessions, console, bridge>>

\* the block has run to its end
BlockDone ==
  /\ worker.pc = "running"
  /\ worker' = [worker EXCEPT !.pc = "idle"]
  /\ UNCHANGED <<buf, persisted, gameController, isReady, inbox, runQ,
                 handlers, issued, computed, lastStore, pre, script,
                 sessions, console, bridge>>

BlockingNext ==
  \/ PostRunCode
  \/ WorkerOnMessage
  \/ SyncCall
  \/ BusyWait
  \/ BlockDone
  \/ MainCallGameMethod
  \/ AwaitDone
  \/ FrameHalf
  \/ PostGameMethodResult

BlockingSpec == BlockingInit /\ [][BlockingNext]_vars

\* every thread goes on, every message is dispatched when its receiver can
\* take it, and frames keep being rendered
BlockingFairness ==
  /\ WF_vars(WorkerOnMessage)
  /\ WF_vars(BusyWait)
  /\ WF_vars(MainCallGameMethod)
  /\ WF_vars(AwaitDone)
  /\ WF_vars(FrameHalf)
  /\ WF_vars(PostGameMethodResult)

BlockingFairSpec == BlockingSpec /\ BlockingFairness

(***************************************************************************)
(* The console alone: lines are entered and blocks are posted as runCode   *)
(***************************************************************************)
\* lines a block may hold before the one that ends it
MaxBlock == 3

NEWLINE == charCode(" ") - 22

\* the lines entered: a statement, a block header, an indented statement,
\* brackets, a quote, the empty line and a line of one space
Lines ==
  {Str(<<"a">>), Str(<<"a", ":">>), Str(<<" ", "a">>), Str(<<"(">>),
   Str(<<")">>), Str(<<"'">>), <<>>, Str(<<" ">>)}

\* \s on the characters in use
isSpace(c) == c \in {charCode(" "), NEWLINE}

RECURSIVE trimStart(_)
trimStart(s) ==
  IF s # <<>> /\ isSpace(Head(s)) THEN trimStart(Tail(s)) ELSE s

RECURSIVE trimEnd(_)
trimEnd(s) ==
  IF s # <<>> /\ isSpace(s[Len(s)]) THEN trimEnd(SubSeq(s, 1, Len(s) - 1))
  ELSE s

\* String.prototype.trim
trim(s) == trimEnd(trimStart(s))

\* lines.join of the newline
RECURSIVE join(_)
join(lines) ==
  IF lines = <<>> THEN <<>>
  ELSE IF Len(lines) = 1 THEN lines[1]
  ELSE lines[1] \o <<NEWLINE>> \o join(Tail(lines))

\* the last element of code.split of the newline
lastLineOf(code) ==
  LET breaks == {n \in DOMAIN code : code[n] = NEWLINE}
  IN IF breaks = {} THEN code
     ELSE SubSeq(code, (CHOOSE n \in breaks : \A m \in breaks : m <= n) + 1,
                 Len(code))

\* the number of matches of a character class in code
matches(code, class) == Cardinality({n \in DOMAIN code : code[n] \in class})

needsMoreInput(code) ==
  LET lastLine == lastLineOf(code)
      openBrackets == matches(code, {charCode("("), charCode("["),
                                     charCode("{")})
      closeBrackets == matches(code, {charCode(")"), charCode("]"),
                                      charCode("}")})
      singleQuotes == matches(code, {charCode("'")})
      doubleQuotes == matches(code, {QUOTE})
  IN \/ (trim(lastLine) # <<>>
         /\ trim(lastLine)[Len(trim(lastLine))] = charCode(":"))
     \/ (lastLine # <<>> /\ isSpace(lastLine[1]) /\ trim(lastLine) # <<>>)
     \/ openBrackets # closeBrackets
     \/ singleQuotes % 2 # 0
     \/ doubleQuotes % 2 # 0

\* variant: the block is posted but the console stays in multi-line mode
handleEnterKeepMode(line) ==
  IF console.isMultiLine
  THEN LET buffer == Append(console.multiLineBuffer, line)
       IN IF trim(line) = <<>> \/ ~needsMoreInput(join(buffer))
          THEN [isMultiLine |-> TRUE, multiLineBuffer |-> <<>>,
                currentLine |-> line, posted |-> <<join(buffer)>>]
          ELSE [isMultiLine |-> TRUE, multiLineBuffer |-> buffer,
                currentLine |-> line, posted |-> <<>>]
  ELSE IF trim(line) = <<>>
       THEN [console EXCEPT !.currentLine = line, !.posted = <<>>]
  ELSE IF needsMoreInput(line)
       THEN [isMultiLine |-> TRUE, multiLineBuffer |-> <<line>>,
             currentLine |-> line, posted |-> <<>>]
  ELSE [console EXCEPT !.currentLine = line, !.posted = <<line>>]

\* handleEnter with currentLine = line, the console being ready: the console
\* afterwards, currentLine keeping the line that was entered and posted
\* holding the code of the runCode message, if one was posted
handleEnter(line) ==
  IF console.isMultiLine
  THEN LET buffer == Append(console.multiLineBuffer, line)
       IN IF trim(line) = <<>> \/ ~needsMoreInput(join(buffer))
          THEN [isMultiLine |-> FALSE, multiLineBuffer |-> <<>>,
                currentLine |-> line, posted |-> <<join(buffer)>>]
          ELSE [isMultiLine |-> TRUE, multiLineBuffer |-> buffer,
                currentLine |-> line, posted |-> <<>>]
  ELSE IF trim(line) = <<>>
       THEN [console EXCEPT !.currentLine = line, !.posted = <<>>]
  ELSE IF needsMoreInput(line)
       THEN [isMultiLine |-> TRUE, multiLineBuffer |-> <<line>>,
             currentLine |-> line, posted |-> <<>>]
  ELSE [console EXCEPT !.currentLine = line, !.posted = <<line>>]

\* the page and the worker have started; the worker has not reported ready
ConsoleInit ==
  /\ buf = [c \in 0..(BufCells - 1) |-> 0]
  /\ persisted = Null
  /\ gameController = Null
  /\ isReady = FALSE
  /\ inbox = <<>>
  /\ runQ = 0
  /\ handlers = <<>>
  /\ worker = idleWorker
  /\ issued = 0
  /\ computed = [seq |-> NoCall, value |-> Undefined]
  /\ lastStore = [by |-> "none", value |-> 0, arming |-> FALSE]
  /\ pre = Null
  /\ script = <<>>
  /\ sessions = [live |-> 0, peak |-> 0]
  /\ console = newConsole
  /\ bridge = newBridge

\* onmessage, case ready
ConsoleReady ==
  /\ ~isReady
  /\ isReady' = TRUE
  /\ UNCHANGED <<buf, persisted, gameController, inbox, runQ, handlers,
                 worker, issued, computed, lastStore, pre, script, sessions,
                 console, bridge>>

\* the Enter key: handleEnter returns at once while the console is not ready
Enter ==
  \E line \in Lines :
    /\ Len(console.multiLineBuffer) < MaxBlock \/ trim(line) = <<>>
    /\ console' = IF isReady THEN handleEnter(line) ELSE console
    /\ UNCHANGED <<buf, persisted, gameController, isReady, inbox, runQ,
                   handlers, worker, issued, computed, lastStore, pre, script,
                   sessions, bridge>>

ConsoleNext == ConsoleReady \/ Enter

ConsoleSpec == ConsoleInit /\ [][ConsoleNext]_vars

(***************************************************************************)
(* The encoding alone: the controller is replaced by a source of result    *)
(* values, which go through the publication and the worker's decoding      *)
(***************************************************************************)
\* code units the drawn strings are made of: a, quotation mark, backslash
CodecAlphabet == {97, QUOTE, BACKSLASH}

StringsUpTo(n) == UNION {[1..k -> CodecAlphabet] : k \in 0..n}

ShortValues == {Undefined, Null} \cup {JSString(x) : x \in StringsUpTo(MaxLen)}

\* the string of n letters a
Filled(n) == JSString([k \in 1..n |-> 97])

\* the cells of the buffer that can hold payload
PayloadCells == BufCells - mainBase

\* the results published after the longest one
AfterLong == {Null, JSString(<<97>>), JSString(<<BACKSLASH, QUOTE>>)}

\* the runs of results: every run of up to MaxPublishes short values, the
\* longest result that fits followed by a short one, and the shortest
\* result that does not fit
Scripts ==
  UNION {[1..k -> ShortValues] : k \in 1..MaxPublishes}
  \cup {<<Filled(PayloadCells - 2), v>> : v \in AfterLong}
  \cup {<<Filled(PayloadCells - 1)>>}

CodecInit ==
  /\ buf = [c \in 0..(BufCells - 1) |-> 0]
  /\ persisted = Null
  /\ gameController = Null
  /\ isReady = TRUE
  /\ inbox = <<>>
  /\ runQ = 0
  /\ handlers = <<>>
  /\ worker = [idleWorker EXCEPT !.pc = "running"]
  /\ issued = 0
  /\ computed = [seq |-> NoCall, value |-> Undefined]
  /\ lastStore = [by |-> "none", value |-> 0, arming |-> FALSE]
  /\ pre = Null
  /\ script \in Scripts
  /\ sessions = [live |-> 0, peak |-> 0]
  /\ console = newConsole
  /\ bridge = newBridge

\* the interpreter calls a primitive
CodecCall ==
  /\ worker.pc = "running"
  /\ script # <<>>
  /\ Arm("toggle", <<>>)
  /\ UNCHANGED <<persisted, gameController, isReady, inbox, runQ, handlers,
                 computed, pre, script, sessions, console, bridge>>

\* handleSyncGameMethod with a controller whose command returns the next
\* value of the run
CodecHandle ==
  /\ inbox # <<>>
  /\ Head(inbox).type = "gameMethodSync"
  /\ ~MainBusy
  /\ script # <<>>
  /\ inbox' = Tail(inbox)
  /\ handlers' = Append(handlers,
                        startPublish(newHandler(Head(inbox).seq,
                                                Head(inbox).method),
                                     Head(script)))
  /\ computed' = [seq |-> Head(inbox).seq, value |-> Head(script)]
  /\ script' = Tail(script)
  /\ UNCHANGED <<buf, persisted, gameController, isReady, runQ, worker,
                 issued, lastStore, pre, sessions, console, bridge>>

CodecNext ==
  \/ CodecCall
  \/ WorkerPost
  \/ CodecHandle
  \/ WriteLen
  \/ WriteCell
  \/ SetFlag
  \/ WorkerSpin
  \/ WorkerReadLen
  \/ WorkerReadCell
  \/ WorkerReturn

CodecSpec == CodecInit /\ [][CodecNext]_vars

(***************************************************************************)
(* Properties                                                              *)
(***************************************************************************)
\* requests posted by the worker and not yet taken by the main thread
PendingRequests == {n \in DOMAIN inbox : inbox[n].type = "gameMethodSync"}

\* requests posted and not yet answered: waiting in the inbox or being handled
InFlight == Cardinality(PendingRequests) + Len(handlers)

\* the JSON text of the last result the main thread computed
ComputedText == JSONstringify(Coalesce(computed.value))

\* C1: at most one request is in flight, no two invocations of
\* handleSyncGameMethod overlap, and whenever the worker is anywhere but in
\* its busy wait (in particular when it arms and posts) no request is
\* waiting or being handled
AtMostOneInFlight ==
  /\ InFlight <= 1
  /\ Len(handlers) <= 1
  /\ worker.pc # "spin" => InFlight = 0

\* C1 witness: a later call is waiting while the main thread handles it
SecondCallInFlight ==
  /\ issued >= 2
  /\ worker.pc = "spin"
  /\ Len(handlers) = 1
  /\ buf[0] = 0

\* C2: once the handler of a request has ended, the ready flag is 1: the
\* dispatcher has published a result whatever happened while handling
AlwaysPublishes ==
  (worker.pc = "spin" /\ InFlight = 0) => buf[0] = 1

\* C3: every call that has posted its request eventually sees the ready
\* flag set and goes on to read the result
EveryCallReturns == (worker.pc = "spin") ~> (worker.pc = "readLen")

\* C4: the value a call returns is the result computed for the request of
\* that very call (the k-th result for the k-th call)
ResultMatchesRequest ==
  worker.retSeq # NoCall =>
    /\ computed.seq = worker.retSeq
    /\ worker.ret = workerResponse(Coalesce(computed.value))

\* C4 witness: the third call has returned a string
ThirdCallReturned == worker.retSeq = 2 /\ worker.ret.t = "string"

\* C5: 1 is stored into cell 0 only by the main thread, 0 only by the
\* worker and only when it arms a request; cell 0 holds the last store
FlagWriterDiscipline ==
  /\ buf[0] = lastStore.value
  /\ lastStore.value = 1 => lastStore.by = "main"
  /\ (lastStore.value = 0 /\ lastStore.by # "none") =>
       (lastStore.by = "worker" /\ lastStore.arming)
  /\ lastStore.value \in {0, 1}

\* C5 witness: the worker has armed a request over a published result
Rearmed == lastStore.by = "worker" /\ issued >= 2 /\ worker.pc = "post"

\* C6: while the worker reads the length and the payload, the main thread
\* has finished writing, the buffer holds the whole text of the result of
\* the current request, and what the worker has read so far is a prefix of it
NoPartialRead ==
  worker.pc \in {"readLen", "readCells"} =>
    /\ computed.seq = worker.seq
    /\ handlers = <<>>
    /\ buf[1] = Len(ComputedText)
    /\ \A k \in 1..Len(ComputedText) : buf[mainBase + k - 1] = ComputedText[k]
    /\ worker.pc = "readCells" =>
         /\ worker.dataLength = Len(ComputedText)
         /\ worker.jsonString = SubSeq(ComputedText, 1, worker.i)

\* C6 witness: the worker has read a whole result that is shorter than an
\* earlier one, whose last code units are still in the buffer
ReadOverStaleUnits ==
  /\ worker.pc = "readCells"
  /\ worker.i = worker.dataLength
  /\ worker.dataLength > 0
  /\ buf[workerBase + worker.dataLength] # 0

\* C7: a call returns the published value itself, undefined being returned
\* as null (checked on results that are not the level-loaded sentinel)
RoundTrip ==
  worker.retSeq # NoCall => worker.ret = Coalesce(computed.value)

\* C7 witness: a string with a quotation mark came back through a buffer
\* that still holds code units of a longer result
QuotedAfterLonger ==
  /\ worker.retSeq = 1
  /\ worker.ret.t = "string"
  /\ \E k \in DOMAIN worker.ret.s : worker.ret.s[k] = QUOTE
  /\ buf[workerBase + worker.dataLength] # 0

\* C8: when the handler of a result too long for the payload cells has
\* ended, the caller has been given an answer (the ready flag is 1)
OverflowReported ==
  (/\ worker.pc = "spin"
   /\ computed.seq = worker.seq
   /\ Len(ComputedText) > PayloadCells
   /\ InFlight = 0) => buf[0] = 1

\* the command whose completion is observed: the first handler, once its
\* result is known
StepCompleted ==
  /\ handlers # <<>>
  /\ handlers[1].method = "step"
  /\ handlers[1].pc \in PubPcs

CellOf(g) == <<g.player.x, g.player.y>>

\* the offset of one step of a controller
Offset(g) == <<RoundCos(g.player.rotation), RoundSin(g.player.rotation)>>

Plus(c, d) == <<c[1] + d[1], c[2] + d[2]>>

InGrid(g, c) == c[1] \in 0..(g.W - 1) /\ c[2] \in 0..(g.H - 1)

\* the cell ahead can be entered: in bounds, no closed door, and not
\* blocked once the push of a box standing in it is resolved
CanEnterAhead(g) ==
  LET ahead == Plus(CellOf(g), Offset(g))
      beyond == Plus(ahead, Offset(g))
  IN /\ InGrid(g, ahead)
     /\ ahead \notin g.doors
     /\ IF ahead \in g.boxes
        THEN InGrid(g, beyond) /\ beyond \notin g.blocked
        ELSE ahead \notin g.blocked

PushedIntoLava ==
  /\ StepCompleted
  /\ Plus(CellOf(pre), Offset(pre)) \in pre.boxes
  /\ Plus(Plus(CellOf(pre), Offset(pre)), Offset(pre)) \in pre.lava

\* C10: after a step that pushes a box into lava, the box and the lava
\* entry are gone, neither cell is blocked, and the player stands where the
\* box was
BoxPushIntoLava ==
  PushedIntoLava =>
    LET boxCell == Plus(CellOf(pre), Offset(pre))
        lavaCell == Plus(boxCell, Offset(pre))
    IN /\ gameController.boxes = pre.boxes \ {boxCell}
       /\ gameController.lava = pre.lava \ {lavaCell}
       /\ boxCell \notin gameController.blocked
       /\ lavaCell \notin gameController.blocked
       /\ CellOf(gameController) = boxCell

\* C10 witness: such a step has completed in a level other than the
\* corridor of "intro"
BoxSunk == PushedIntoLava /\ gameController.H > 3

\* the first handler runs the command m and its result is known
Completed(m) ==
  /\ handlers # <<>>
  /\ handlers[1].method = m
  /\ handlers[1].pc \in PubPcs

\* the cell ahead of the player of a controller
Ahead(g) == Plus(CellOf(g), Offset(g))

\* the command that has completed was a toggle with a closed door ahead
ToggledAtDoor == Completed("toggle") /\ Ahead(pre) \in pre.doors

StepOntoExitWins ==
  (/\ Completed("step")
   /\ CellOf(pre) # pre.exitCell
   /\ CellOf(gameController) = gameController.exitCell) =>
    handlers[1].methodResult = JSString(MSG_WIN)

\* C13: once the player has landed on lava, a step, left or right changes
\* neither the player's cell nor its facing
LavaIsTerminal ==
  (/\ \E m \in {"step", "left", "right"} : Completed(m)
   /\ pre.player.meshDisposed) =>
    /\ CellOf(gameController) = CellOf(pre)
    /\ gameController.player.rotation = pre.player.rotation

\* the command that has completed was a step towards a closed door
SteppedAtDoor == Completed("step") /\ Ahead(pre) \in pre.doors

DollarWithoutLevel ==
  (/\ worker.method = "level"
   /\ worker.args = <<JSString("$")>>
   /\ worker.seq # NoCall
   /\ computed.seq = worker.seq
   /\ persisted = Null) =>
    /\ computed.value = JSString(MSG_SELECT_FIRST)
    /\ gameController = Null

\* the main thread takes the request level(name) for a string name that is
\* neither a key of the registry nor the sentinel "$"
TakesUnknownLevel ==
  /\ inbox # <<>>
  /\ inbox' = Tail(inbox)
  /\ Head(inbox).type = "gameMethodSync"
  /\ Head(inbox).method = "level"
  /\ Head(inbox).args[1].t = "string"
  /\ Head(inbox).args[1].s \notin (DOMAIN levels \cup {"$"})

\* C15: handling level(name) for such a name leaves the session and the
\* persisted name as they are and starts the publication of the "unknown
\* level" message
UnknownLevelRejected ==
  [][TakesUnknownLevel =>
       /\ persisted' = persisted
       /\ gameController' = gameController
       /\ computed' = [seq |-> Head(inbox).seq,
                       value |-> JSString(MSG_UNKNOWN_LEVEL)]
       /\ Len(handlers') = 1
       /\ handlers'[1].pc \in PubPcs
       /\ handlers'[1].methodResult = JSString(MSG_UNKNOWN_LEVEL)]_vars

\* the call the interpreter made last has returned, and it was method(args)
Returned(method, args) ==
  /\ worker.retSeq # NoCall
  /\ worker.retSeq = worker.seq
  /\ worker.method = method
  /\ worker.args = args

\* the session a level's grid gives once it is loaded
FreshSession(name) == initializeGameAsync(NewGridPuzzle3D(levels[name]))

RestartIsLevel ==
  persisted # Null =>
    /\ resolveLevel("restart", <<>>) = resolveLevel("level", <<persisted>>)
    /\ resolveLevel("level", <<JSString("$")>>)
         = resolveLevel("level", <<persisted>>)
    /\ (Returned("restart", <<>>) \/ Returned("level", <<JSString("$")>>)) =>
         /\ persisted.s \in DOMAIN levels
         /\ worker.ret = JSString(MSG_LEVEL_LOADED)
         /\ gameController = FreshSession(persisted.s)
         /\ sessions.live = 1

RestartedSpeed ==
  /\ Returned("restart", <<>>)
  /\ persisted = JSString("speed")
  /\ gameController = FreshSession("speed")

\* C18: there is never more than one live session, also not while level or
\* restart replaces one, and a command only runs on the installed session,
\* which is loaded and not disposed.
OneLiveSession ==
  /\ sessions.live <= 1
  /\ sessions.peak <= 1
  /\ (gameController # Null /\ ~gameController.disposed) => sessions.live = 1
  /\ \A n \in DOMAIN handlers :
       /\ handlers[n].pc # "orphan"
       /\ handlers[n].pc \in AnimPcs =>
            (gameController.loaded /\ ~gameController.disposed)

SessionReplaced ==
  /\ handlers # <<>>
  /\ handlers[1].pc = "loading"
  /\ handlers[1].seq >= 1
  /\ sessions.live = 1

\* a command is called while the animation of another one is in flight
ArrivesInAnimation ==
  /\ \E n \in DOMAIN handlers : handlers[n].pc \in AnimPcs \ {"win"}
  /\ Len(handlers') = Len(handlers) + 1

\* C19: a command that arrives while another command's animation is in
\* flight does not begin: it leaves the game state as it is and starts no
\* animation of its own.
NoSecondCommand ==
  [][ArrivesInAnimation =>
       /\ gameController' = gameController
       /\ handlers'[Len(handlers')].pc \in PubPcs]_vars

\* the command that has completed was a toggle on a cell hosting a button
ToggledOnButton == Completed("toggle") /\ CellOf(pre) \in DOMAIN pre.buttons

\* the rotation a button of the given direction asks of the player: the one
\* whose opposite is the direction plus a quarter turn
RequiredRotation(direction) == (14 - direction) % 8

\* C21: a toggle on a button cell toggles an untoggled button the player
\* faces and returns the confirmation; on a toggled button it returns
\* 'already activated', on an untoggled one not faced the hint, and in both
\* cases nothing changes.
ButtonRule ==
  ToggledOnButton =>
    LET c == CellOf(pre)
        b == pre.buttons[c]
    IN IF b.toggled
       THEN /\ gameController = pre
            /\ handlers[1].methodResult = JSString(MSG_BUTTON_ALREADY)
       ELSE IF pre.player.rotation = RequiredRotation(b.direction)
       THEN /\ gameController = [pre EXCEPT !.buttons[c].toggled = TRUE]
            /\ handlers[1].methodResult = JSString(MSG_BUTTON_ACTIVATED)
       ELSE /\ gameController = pre
            /\ handlers[1].methodResult = JSString(MSG_FACE_BUTTON)

ButtonNotFaced ==
  /\ ToggledOnButton
  /\ ~pre.buttons[CellOf(pre)].toggled
  /\ pre.player.rotation # RequiredRotation(pre.buttons[CellOf(pre)].direction)

\* C22: a toggle never both toggles a button and opens a door, and a toggle
\* on a button cell leaves the doors, the blocked cells and the held keys
\* as they were, also with a closed door ahead and a key in hand.
ButtonBeforeDoor ==
  Completed("toggle") =>
    /\ ~(gameController.buttons # pre.buttons
         /\ gameController.doors # pre.doors)
    /\ CellOf(pre) \in DOMAIN pre.buttons =>
         /\ gameController.doors = pre.doors
         /\ gameController.blocked = pre.blocked
         /\ gameController.player.keys = pre.player.keys

ButtonPressedAtDoor ==
  /\ ToggledOnButton
  /\ Ahead(pre) \in pre.doors
  /\ pre.player.keys > 0
  /\ gameController.buttons # pre.buttons

\* the facing after a turn command, in eighths of a turn
Turned(rotation, m) ==
  (rotation + (IF m = "left" THEN QUARTER ELSE 8 - QUARTER)) % 8

\* C23: left and right change the player's facing by a quarter turn and
\* nothing else; while the rotation runs the player is marked as moving and
\* everything but the facing is as it was when the command began.
RotationOnly ==
  (handlers # <<>> /\ handlers[1].method \in {"left", "right"}) =>
    LET h == handlers[1]
    IN /\ h.pc \in {"rotate", "rotateMid"} =>
            /\ gameController.player.moving
            /\ [gameController EXCEPT !.player.rotation = pre.player.rotation,
                                      !.player.moving = pre.player.moving]
                 = pre
       /\ h.pc \in PubPcs =>
            gameController =
              IF pre.player.moving THEN pre
              ELSE [pre EXCEPT !.player.rotation = Turned(@, h.method)]

TurnedRightWithKey ==
  /\ Completed("right")
  /\ pre.player.keys > 0
  /\ gameController.player.rotation = Turned(pre.player.rotation, "right")

\* C24: a command that was rejected, so that the session is as it was when
\* the command began, has returned a string.
RejectionsAreStrings ==
  (/\ handlers # <<>>
   /\ handlers[1].method \in Methods
   /\ handlers[1].pc \in PubPcs
   /\ gameController = pre) =>
    handlers[1].methodResult.t = "string"

\* the step that has completed moved the player
StepLanded == Completed("step") /\ CellOf(gameController) # CellOf(pre)

\* C25: a step that lands on a cell holding a key adds one to the held keys
\* and takes that key out of the collection; a step that lands anywhere
\* else leaves both as they were, so no key is picked up twice.
KeyPickup ==
  StepLanded =>
    LET c == CellOf(gameController)
    IN IF c \in pre.keys
       THEN /\ gameController.player.keys = pre.player.keys + 1
            /\ gameController.keys = pre.keys \ {c}
       ELSE /\ gameController.player.keys = pre.player.keys
            /\ gameController.keys = pre.keys

KeyPickedUp == StepLanded /\ CellOf(gameController) \in pre.keys

\* the cell of a picked-up key, entered once more
KeyCellReentered ==
  /\ StepLanded
  /\ CellOf(gameController) \in initMap(gameController.MAP).keys
  /\ CellOf(gameController) \notin pre.keys

\* some cell of the grid carries the character
HasChar(MAP, ch) ==
  \E j \in 1..Len(MAP) : \E i \in 1..Len(MAP[j]) : MAP[j][i] = ch

NoneBeforeReady ==
  (/\ worker.retSeq # NoCall
   /\ worker.retSeq = worker.seq
   /\ worker.method \in Methods
   /\ ~worker.gameControllerReady) =>
    worker.ret = Null

\* C28: with the console ready, a line that is not blank and needs no
\* continuation is posted at once; a line that needs continuation opens a
\* block; in a block the lines are collected in the order entered, and the
\* block is posted once, joined by newlines, by the blank line or the line
\* that completes it, which empties the buffer and ends multi-line mode.
BlockSubmission ==
  [][(isReady /\ isReady') =>
       LET line == console'.currentLine
           all == Append(console.multiLineBuffer, line)
           single == /\ ~console'.isMultiLine
                     /\ console'.multiLineBuffer = <<>>
       IN /\ console.isMultiLine <=> console.multiLineBuffer # <<>>
          /\ IF ~console.isMultiLine
             THEN IF trim(line) = <<>>
                  THEN console'.posted = <<>> /\ single
                  ELSE IF needsMoreInput(line)
                  THEN /\ console'.posted = <<>>
                       /\ console'.isMultiLine
                       /\ console'.multiLineBuffer = <<line>>
                  ELSE console'.posted = <<line>> /\ single
             ELSE IF trim(line) = <<>> \/ ~needsMoreInput(join(all))
                  THEN console'.posted = <<join(all)>> /\ single
                  ELSE /\ console'.posted = <<>>
                       /\ console'.isMultiLine
                       /\ console'.multiLineBuffer = all]_vars

BlockPosted ==
  /\ console.posted = <<join(<<Str(<<"a", ":">>), Str(<<" ", "a">>), <<>>>>)>>
  /\ ~console.isMultiLine
  /\ console.multiLineBuffer = <<>>

\* the request of call id has been handled to its end by the main thread
Handled(id) ==
  /\ \A n \in DOMAIN inbox : inbox[n].seq # id
  /\ \A n \in DOMAIN handlers : handlers[n].seq # id

\* the answer the main thread owes to a request for the method, as far as
\* the request alone decides it
AnswerFits(m, method) ==
  IF gameController = Null \/ method \in {"jump"}
  THEN m.error = JSString(MSG_NOT_READY) /\ m.result = Undefined
  ELSE IF method = "player"
  THEN m.error = JSString(MSG_NOT_A_FUNCTION) /\ m.result = Undefined
  ELSE m.error = Undefined

\* what holds of the calls, the answers and the completions in one state
OneAnswerEach ==
  \A id \in DOMAIN bridge.requested :
    /\ bridge.posts[id] <= 1
    /\ bridge.posts[id] = 1 <=> Handled(id)
    /\ \A n \in DOMAIN bridge.toWorker :
         bridge.toWorker[n].messageId = id =>
           AnswerFits(bridge.toWorker[n], bridge.requested[id])
    /\ (id \in bridge.delivered) <=> (id \notin bridge.listeners)
    /\ (bridge.completed[id] # NotYet) <=> (id \in bridge.delivered)

\* C29: every callGameMethod request is answered by one gameMethodResult
\* with its messageId, carrying the method's result, the text of what the
\* call threw, or 'Game controller not ready'; and a call completes by the
\* answer with its own messageId only, whatever else is outstanding.
ExactlyOneResult ==
  [][/\ OneAnswerEach'
     /\ Len(bridge'.toWorker) > Len(bridge.toWorker) =>
          LET m == bridge'.toWorker[Len(bridge'.toWorker)]
          IN /\ m.type = "gameMethodResult"
             /\ bridge.posts[m.messageId] = 0
             /\ ~Handled(m.messageId)
             /\ m.error = Undefined =>
                  (m.messageId = computed.seq /\ m.result = computed.value)]_vars

SecondCallCompletedFirst ==
  /\ Len(bridge.requested) >= 2
  /\ bridge.completed[2] # NotYet
  /\ bridge.completed[1] = NotYet
  /\ bridge.requested[1] = "moveForward"
  /\ \E n \in DOMAIN handlers : handlers[n].seq = 1

\* the answer to the call the worker waits for has been posted
AnswerPosted ==
  /\ worker.pc = "wait"
  /\ \E n \in DOMAIN bridge.toWorker :
       /\ bridge.toWorker[n].type = "gameMethodResult"
       /\ bridge.toWorker[n].messageId = worker.seq

\* C30: once the main thread has posted the gameMethodResult with the
\* messageId of the call, the wait loop of callGameMethodSync ends and the
\* call returns.
BlockingCallReturns == AnswerPosted ~> (worker.pc # "wait")

\* the messages with which attemptMoveAsync refuses a step
Rejections ==
  {JSString(MSG_CANT_GO), JSString(MSG_PRESS_T), JSString(MSG_CANT_PUSH)}

\* the step that has completed was refused with a message, or dropped
\* because the player was moving
StepRejected ==
  /\ Completed("step")
  /\ handlers[1].methodResult \in Rejections \/ pre.player.moving

\* C31: a step that is rejected with a message, or dropped because the
\* player is moving, leaves the whole session as it was when the step
\* began: player, held keys, blocked set and every collection.
RejectedStepFrame == StepRejected => gameController = pre

\* C31 witness: a step against a box that cannot be pushed was refused
PushRejected ==
  /\ Completed("step")
  /\ handlers[1].methodResult = JSString(MSG_CANT_PUSH)
  /\ Ahead(pre) \in pre.boxes

\* C32: the player's cell is in bounds and not blocked (no wall, box, closed
\* door or auto-door under the player), and no box stands on it; this holds
\* in every state, so at every command boundary.
PlayerCellFree ==
  /\ InGrid(gameController, CellOf(gameController))
  /\ CellOf(gameController) \notin gameController.blocked
  /\ CellOf(gameController) \notin gameController.boxes

\* C32 witness: between two commands the player is on a lava cell it has
\* landed on
LandedOnLava ==
  /\ handlers = <<>>
  /\ pre # Null
  /\ CellOf(gameController) \in gameController.lava

\* C32 witness of a push: the player stands where a box was
StandsWhereBoxWas ==
  /\ handlers = <<>>
  /\ CellOf(gameController) \in initMap(gameController.MAP).boxes

\* the wall cells of a controller's grid
Walls(g) == CellsWith(g.MAP, {"#"})

\* C33: the blocked set is exactly the wall cells, the auto-door cells, the
\* cells of the boxes and the cells of the closed doors; so every box and
\* closed door is blocked and the cell of a box pushed away or of an opened
\* door is free.
BlockedConsistency ==
  gameController.blocked =
    Walls(gameController) \cup gameController.autoDoors
      \cup gameController.boxes \cup gameController.doors

\* C33 witness: between two commands, a box has been pushed from its cell
\* to another cell and a door has been opened
BoxMovedDoorOpened ==
  /\ handlers = <<>>
  /\ gameController.boxes \ initMap(gameController.MAP).boxes # {}
  /\ initMap(gameController.MAP).doors \ gameController.doors # {}

\* a session is loaded and none of its commands is between its first and
\* its last step
AtBoundary ==
  /\ gameController # Null
  /\ gameController.loaded
  /\ \A n \in DOMAIN handlers : handlers[n].pc \in PubPcs

\* the doors of a controller opened since the level was loaded
DoorsOpened(g) == Cardinality(initMap(g.MAP).doors) - Cardinality(g.doors)

\* C34: between commands the held keys are never negative, and held keys
\* plus keys still lying in the level plus doors opened so far equal the
\* keys the level started with; so no more doors are opened than keys were
\* picked up.
KeyConservation ==
  AtBoundary =>
    /\ gameController.player.keys >= 0
    /\ gameController.player.keys + Cardinality(gameController.keys)
         + DoorsOpened(gameController)
       = Cardinality(initMap(gameController.MAP).keys)
    /\ DoorsOpened(gameController)
         <= Cardinality(initMap(gameController.MAP).keys)
              - Cardinality(gameController.keys)

\* C34 witness: between commands, a key is held, a key has been spent on a
\* door and a key still lies in the level
KeyHeldSpentAndLeft ==
  /\ AtBoundary
  /\ gameController.player.keys > 0
  /\ DoorsOpened(gameController) > 0
  /\ gameController.keys # {}

\* a session is loaded
Loaded == gameController # Null /\ gameController.loaded

\* the boxes and the lava cells of a controller gone since the level was
\* loaded
BoxesRemoved(g) == Cardinality(initMap(g.MAP).boxes) - Cardinality(g.boxes)

LavaRemoved(g) == Cardinality(initMap(g.MAP).lava) - Cardinality(g.lava)

\* C35: within a session no step adds a box or a lava cell, and as many
\* boxes have gone as lava cells: a box goes only into lava and lava goes
\* only under a box.
BoxLavaConservation ==
  [][(Loaded /\ Loaded' /\ gameController'.MAP = gameController.MAP) =>
       /\ Cardinality(gameController'.boxes)
            <= Cardinality(gameController.boxes)
       /\ Cardinality(gameController'.lava)
            <= Cardinality(gameController.lava)
       /\ BoxesRemoved(gameController') = LavaRemoved(gameController')]_vars

\* C35 witness: two boxes have gone into two lava cells, one of them after
\* being pushed over a free cell
TwoBoxesSunk ==
  /\ Loaded
  /\ handlers = <<>>
  /\ BoxesRemoved(gameController) = 2
  /\ LavaRemoved(gameController) = 2

\* the player of a loaded session stands on the exit
OnExit(g) == g # Null /\ g.loaded /\ CellOf(g) = g.exitCell

\* the command of the first handler has ended on a session whose player was
\* on the exit when it began
AfterWin(m) == Completed(m) /\ OnExit(pre)

\* C36: once a step has landed the player on the exit the player stays
\* marked as moving for the rest of the session: the cell and the facing
\* no longer change, every step, left and right ends without a value
\* (null for the caller) and changes nothing, and toggle is still carried
\* out and returns its message.
WinFreezesMovement ==
  [][/\ OnExit(gameController) =>
          /\ gameController.player.moving
          /\ gameController'.player.moving
          /\ CellOf(gameController') = CellOf(gameController)
          /\ gameController'.player.rotation = gameController.player.rotation
     /\ \A m \in {"step", "left", "right"} :
          AfterWin(m)' =>
            /\ Coalesce(handlers'[1].methodResult) = Null
            /\ gameController' = pre'
     /\ AfterWin("toggle")' =>
          /\ handlers'[1].methodResult.t = "string"
          /\ gameController' = useAction(pre').g
               \/ gameController' = doorOpened(useAction(pre').g, Ahead(pre'))
    ]_vars

\* C36 witness: after the win a toggle has opened the door behind the exit,
\* and the step that follows has been dropped
SteppedAfterWinAndDoor ==
  /\ AfterWin("step")
  /\ pre.doors # initMap(pre.MAP).doors
  /\ Ahead(pre) \notin pre.blocked

\* the four facings along the axes of the grid, and their offsets
Cardinal == {0, QUARTER, 2 * QUARTER, 3 * QUARTER}

CardinalOffsets == {<<1, 0>>, <<0, 1>>, <<-1, 0>>, <<0, -1>>}

\* the session after a whole turn command that began at o
Rotated(o) == rotateFrameLast(o.g, o.to[1], o.to[2])

Left(g) == Rotated(turnLeft(g))

Right(g) == Rotated(turnRight(g))

\* C37: between commands the facing is one of the four cardinal directions
\* and the offset of step and toggle is one of (1,0), (0,1), (-1,0),
\* (0,-1); a completed left or right is the quarter turn of its kind, left
\* then right and right then left restore the session, and so do four
\* lefts and four rights.
FacingGroup ==
  AtBoundary =>
    LET g == gameController
    IN /\ g.player.rotation \in Cardinal
       /\ Offset(g) \in CardinalOffsets
       /\ (Completed("left") /\ ~pre.player.moving) => g = Left(pre)
       /\ (Completed("right") /\ ~pre.player.moving) => g = Right(pre)
       /\ ~g.player.moving =>
            /\ Right(Left(g)) = g
            /\ Left(Right(g)) = g
            /\ Left(Left(Left(Left(g)))) = g
            /\ Right(Right(Right(Right(g)))) = g

\* C37 witness: a left turn from the facing reached by three lefts (or one
\* right) has brought the player back to the initial facing
FacingWrapped ==
  /\ Completed("left")
  /\ pre.player.rotation = 3 * QUARTER
  /\ gameController.player.rotation = 0
  /\ gameController.player.keys > 0

\* an angle of the controller in quarter turns
Quarters(angle) == angle \div QUARTER

\* the facing f and the button direction d, in quarter turns, fit
QuarterRule(f, d) == (f + d + 1) % 4 = 0

\* C38: a toggle on an untoggled button activates it exactly when the
\* facing f and the button's direction d, in quarter turns, satisfy
\* (f + d + 1) mod 4 = 0; each of the button types T, t, Y and y is
\* activated from exactly one cardinal facing, and 'y' from the initial
\* facing.
ButtonQuarterRule ==
  /\ \A ch \in {"T", "t", "Y", "y"} :
       /\ \A f \in 0..3 :
            directionMatch(f * QUARTER, ButtonDirection(ch))
              <=> QuarterRule(f, Quarters(ButtonDirection(ch)))
       /\ Cardinality({f \in 0..3 :
              directionMatch(f * QUARTER, ButtonDirection(ch))}) = 1
  /\ directionMatch(0, ButtonDirection("y"))
  /\ (ToggledOnButton /\ ~pre.buttons[CellOf(pre)].toggled) =>
       (gameController.buttons[CellOf(pre)].toggled
          <=> QuarterRule(Quarters(pre.player.rotation),
                          Quarters(pre.buttons[CellOf(pre)].direction)))

\* C38 witness: the player stepped onto a button 'y' facing the initial
\* direction, and the toggle there has activated it
ActivatedDownButton ==
  /\ ToggledOnButton
  /\ ~pre.buttons[CellOf(pre)].toggled
  /\ gameController.buttons[CellOf(pre)].toggled
  /\ Ch(pre.MAP, pre.player.x, pre.player.y) = "y"
  /\ pre.player.rotation = 0

\* handler n is a level or restart command that has loaded its level
LevelLoaded(n) ==
  /\ handlers[n].method \in {"level", "restart"}
  /\ handlers[n].pc \in PubPcs
  /\ handlers[n].methodResult = JSString(SENTINEL)

TypeOK ==
  /\ buf[0] \in {0, 1}
  /\ runQ \in 0..MaxQueue
  /\ issued \in 0..MaxCalls

====
